---- MODULE Spec2Model ----
(***************************************************************************)
(* A model of cargo-dist: the distribution plan (gather_work), the legacy  *)
(* pipeline that runs it (do_dist, build_cargo_target and the archive      *)
(* builders of src/cargo-dist/src/lib.rs) and the build-output reconciler  *)
(* (BuildExpectations of src/cargo-dist/src/build/mod.rs).                 *)
(*                                                                         *)
(* Strings and paths are sequences of one-character strings, so that       *)
(* format!, Path::join, file_name, file_stem, extension and str::contains  *)
(* are computed as the code computes them.                                 *)
(***************************************************************************)
EXTENDS Integers, Sequences, FiniteSets, TLC

(***************************************************************************)
(* Option<T>                                                               *)
(***************************************************************************)
None == [some |-> FALSE]
Some(v) == [some |-> TRUE, val |-> v]

(***************************************************************************)
(* Strings                                                                 *)
(***************************************************************************)
\* str::contains: pat occurs in s as a contiguous substring
contains(s, pat) ==
    \E i \in 0..(Len(s) - Len(pat)) : SubSeq(s, i + 1, i + Len(pat)) = pat

\* the positions of character c in s
Positions(s, c) == {i \in 1..Len(s) : s[i] = c}

Max(S) == CHOOSE x \in S : \A y \in S : y <= x

\* The order of the characters the model's map keys are made of (the byte
\* order of these characters), and the byte-wise order of strings that the
\* sorted maps iterate in.
CharRank(c) ==
    CASE c = "-" -> 1 [] c = "." -> 2 [] c = "/" -> 3 [] c = "a" -> 4
      [] c = "b" -> 5 [] c = "c" -> 6 [] c = "p" -> 7 [] c = "q" -> 8
      [] c = "r" -> 9 [] OTHER -> 10

RECURSIVE StrLess(_, _)
StrLess(s, t) ==
    IF t = <<>> THEN FALSE
    ELSE IF s = <<>> THEN TRUE
    ELSE IF s[1] # t[1] THEN CharRank(s[1]) < CharRank(t[1])
    ELSE StrLess(Tail(s), Tail(t))

(***************************************************************************)
(* Paths (std::path::Path / camino::Utf8Path)                              *)
(***************************************************************************)
SEP == "/"
DOT == "."
DOTDOT == <<".", ".">>

\* Path::join for a relative second path
join(dir, name) == dir \o <<SEP>> \o name

\* The last component of the path as Path::components sees it: separators
\* at the end are dropped, and so is a "." that ends the path.
RECURSIVE TrimEnd(_)
TrimEnd(p) ==
    IF p = <<>> THEN p
    ELSE IF p[Len(p)] = SEP THEN TrimEnd(SubSeq(p, 1, Len(p) - 1))
    ELSE IF p[Len(p)] = DOT /\ Len(p) >= 2 /\ p[Len(p) - 1] = SEP
         THEN TrimEnd(SubSeq(p, 1, Len(p) - 1))
    ELSE p

LastComponent(p) ==
    LET q == TrimEnd(p)
        seps == Positions(q, SEP)
    IN  IF seps = {} THEN q ELSE SubSeq(q, Max(seps) + 1, Len(q))

\* Path::file_name: None when the path has no component or ends in ".."
\* (a lone "." is the current directory, not a file name)
file_name(p) ==
    LET c == LastComponent(p)
    IN  IF c = <<>> \/ c = DOTDOT \/ c = <<DOT>> THEN None ELSE Some(c)

\* Path::file_stem: the file name up to its last ".", the whole name when
\* it has no "." or only starts with one
file_stem(p) ==
    LET f == file_name(p)
    IN  IF ~f.some THEN None
        ELSE LET dots == Positions(f.val, DOT)
             IN  IF dots = {} \/ Max(dots) = 1 THEN f
                 ELSE Some(SubSeq(f.val, 1, Max(dots) - 1))

\* Path::extension: what follows the last "." of the file name, None when
\* the name has no "." or only starts with one
extension(p) ==
    LET f == file_name(p)
    IN  IF ~f.some THEN None
        ELSE LET dots == Positions(f.val, DOT)
             IN  IF dots = {} \/ Max(dots) = 1 THEN None
                 ELSE Some(SubSeq(f.val, Max(dots) + 1, Len(f.val)))

(***************************************************************************)
(* Constants of lib.rs                                                     *)
(***************************************************************************)
TARGET_DIST == <<"d", "i", "s", "t", "r", "i", "b">>
PROFILE_DIST == <<"d", "i", "s", "t">>
README_MD == <<"R", "E", "A", "D", "M", "E", ".", "m", "d">>
CHANGELOG_MD == <<"C", "H", "A", "N", "G", "E", "L", "O", "G", ".", "m", "d">>
RELEASES_MD == <<"R", "E", "L", "E", "A", "S", "E", "S", ".", "m", "d">>
BUILTIN_FILES == <<README_MD, CHANGELOG_MD, RELEASES_MD>>
WINDOWS == <<"w", "i", "n", "d", "o", "w", "s">>

\* BundleStyle and CompressionImpl
Zip == [style |-> "Zip"]
Tar(compression) == [style |-> "Tar", compression |-> compression]
CompressionImpl == {"Gzip", "Xzip", "Zstd"}

\* i-th element of a Vec, indices counted from 0 as in the code
At(vec, idx) == vec[idx + 1]
Range(f) == {f[x] : x \in DOMAIN f}

(***************************************************************************)
(* The inputs of a run: what the workspace-metadata loader and             *)
(* `cargo -vV` report, and which well-known files the workspace root has.  *)
(***************************************************************************)
TargetDirectory == <<"t">>
WorkspaceRoot == <<"w">>
HOST_LINUX_GNU == <<"x", "8", "6", "_", "6", "4", "-", "u", "n", "k", "n", "o", "w", "n", "-", "l", "i", "n", "u", "x", "-", "g", "n", "u">>
HOST_WINDOWS_MSVC == <<"x", "8", "6", "_", "6", "4", "-", "p", "c", "-", "w", "i", "n", "d", "o", "w", "s", "-", "m", "s", "v", "c">>
HostTriples == {HOST_LINUX_GNU, HOST_WINDOWS_MSVC}

PKG_P == <<"p">>
PKG_Q == <<"q">>
PKG_R == <<"r">>
BIN_A == <<"a">>
BIN_B == <<"b">>
V100 == <<"1", ".", "0", ".", "0">>
V200 == <<"2", ".", "0", ".", "0">>

\* guppy's BuildTargetId: only Binary(name) is inspected
Binary(name) == [kind |-> "Binary", name |-> name]
Library == [kind |-> "Library"]
Package(id, version, build_targets) ==
    [id |-> id, version |-> version, build_targets |-> build_targets]

\* The workspaces of the model, each a list of packages in the order the
\* package set yields them.  Package ids are unique in a workspace and the
\* binary names of one package are distinct (cargo rejects anything else).
Workspaces ==
    { <<>>,
      <<Package(PKG_P, V100, <<Library>>)>>,
      <<Package(PKG_P, V100, <<Library, Binary(BIN_A)>>)>>,
      <<Package(PKG_P, V100, <<Binary(BIN_A), Binary(BIN_B)>>)>>,
      <<Package(PKG_P, V100, <<Binary(BIN_A)>>), Package(PKG_Q, V100, <<Binary(BIN_B)>>)>>,
      <<Package(PKG_P, V100, <<Binary(BIN_A)>>), Package(PKG_Q, V200, <<Binary(BIN_A)>>)>>,
      <<Package(PKG_P, V100, <<Binary(BIN_A)>>), Package(PKG_Q, V100, <<Binary(BIN_A)>>)>> }

\* Which of BUILTIN_FILES exist in the workspace root
RootFileSets == {{}, {README_MD}, {README_MD, CHANGELOG_MD, RELEASES_MD}}

(***************************************************************************)
(* gather_work: the precomputed graph of all work                          *)
(***************************************************************************)
RECURSIVE Flatten(_)
Flatten(seqs) == IF seqs = <<>> THEN <<>> ELSE Head(seqs) \o Flatten(Tail(seqs))

IsBinary(target) == target.kind = "Binary"

\* artifacts_for_cargo_packages without the filter on BuildTargetId::Binary
artifacts_for_every_build_target(target_idx, packages) ==
    Flatten([i \in 1..Len(packages) |->
        [j \in 1..Len(packages[i].build_targets) |->
            [exe_name |-> IF IsBinary(packages[i].build_targets[j])
                          THEN packages[i].build_targets[j].name ELSE <<"l">>,
             package_id |-> packages[i].id,
             build_target |-> target_idx]]])

\* one ExecutableBuildArtifact per Binary build target of every package
artifacts_for_cargo_packages(target_idx, packages) ==
    Flatten([i \in 1..Len(packages) |->
        LET package == packages[i]
            bins == SelectSeq(package.build_targets, IsBinary)
        IN  [j \in 1..Len(bins) |->
                [exe_name |-> bins[j].name,
                 package_id |-> package.id,
                 build_target |-> target_idx]]])

\* pkg_graph.metadata(&package_id).unwrap().version()
VersionOf(packages, package_id) ==
    packages[CHOOSE i \in 1..Len(packages) : packages[i].id = package_id].version

\* bundle_for looking for "msvc" in the triple
bundle_for_msvc(target_triple) ==
    IF contains(target_triple, <<"m", "s", "v", "c">>) THEN Zip ELSE Tar("Xzip")

\* bundle_for with tar.gz for what is not windows
bundle_for_gzip(target_triple) ==
    IF contains(target_triple, WINDOWS) THEN Zip ELSE Tar("Gzip")

\* BundleStyle::Zip for a triple that contains "windows", else Tar(Xzip)
bundle_for(target_triple) ==
    IF contains(target_triple, WINDOWS) THEN Zip ELSE Tar("Xzip")

file_ext(bundle) ==
    CASE bundle = Zip         -> <<"z", "i", "p">>
      [] bundle = Tar("Gzip") -> <<"t", "a", "r", ".", "g", "z">>
      [] bundle = Tar("Zstd") -> <<"t", "a", "r", ".", "z", "s", "t", "d">>
      [] bundle = Tar("Xzip") -> <<"t", "a", "r", ".", "x", "z">>

\* full_name_of without the "v" before the version
full_name_without_v(app_name, version, target_triple) ==
    app_name \o <<"-">> \o version \o <<"-">> \o target_triple

\* format!("{app_name}-v{version}-{target_triple}")
full_name_of(app_name, version, target_triple) ==
    app_name \o <<"-", "v">> \o version \o <<"-">> \o target_triple

\* the BUILTIN_FILES that exist in the workspace root, in their order
assets_of(workspace_dir, root_files) ==
    LET exists(f) == f \in root_files
        found == SelectSeq(BUILTIN_FILES, exists)
    IN  [i \in 1..Len(found) |-> join(workspace_dir, found[i])]

\* the DistributableTarget of artifact number idx
distributable_for(packages, targets, dist_dir, workspace_dir, root_files, idx, exe) ==
    LET target_triple == At(targets, exe.build_target).target_triple
        bundle == bundle_for(target_triple)
        app_name == exe.exe_name
        version == VersionOf(packages, exe.package_id)
        full_name == full_name_of(app_name, version, target_triple)
        file_name_ == full_name \o <<DOT>> \o file_ext(bundle)
    IN  [target_triple |-> target_triple,
         full_name |-> full_name,
         file_path |-> join(dist_dir, file_name_),
         file_name |-> file_name_,
         dir_path |-> join(dist_dir, full_name),
         bundle |-> bundle,
         required_artifacts |-> {idx},
         assets |-> assets_of(workspace_dir, root_files)]

\* ReleaseKey with the version of the first package for every executable
ReleaseKey_first_version(packages, exe) == <<exe.exe_name, packages[1].version>>

\* the key the release of an artifact's distributable is entered under
ReleaseKey(packages, exe) == <<exe.exe_name, VersionOf(packages, exe.package_id)>>

\* release_for with the push done for every key, not only the entry's own
release_for_every_key(packages, artifacts, key) ==
    [app_name |-> key[1], version |-> key[2],
     distributables |-> [i \in 1..Len(artifacts) |-> i - 1]]

\* the ReleaseTarget of a key: its distributables in the order they were
\* pushed (distributable number i is the one of artifact number i)
release_for(packages, artifacts, key) ==
    LET idxs == [i \in 1..Len(artifacts) |-> i - 1]
        mine(d) == ReleaseKey(packages, At(artifacts, d)) = key
    IN  [app_name |-> key[1], version |-> key[2],
         distributables |-> SelectSeq(idxs, mine)]

\* the orders a HashMap with these keys may be iterated in
IterationOrders(keys) ==
    {s \in [1..Cardinality(keys) -> keys] : \A i, j \in DOMAIN s : s[i] = s[j] => i = j}

\* gather_work; release_order is the order releases.into_iter() yields the keys in
gather_work(packages, host_target_triple, root_files, release_order) ==
    LET target_dir == TargetDirectory
        workspace_dir == WorkspaceRoot
        dist_dir == join(target_dir, TARGET_DIST)
        artifacts == artifacts_for_cargo_packages(0, packages)
        targets == << [target_triple |-> host_target_triple,
                       package |-> [kind |-> "Workspace"],
                       features |-> [no_default_features |-> FALSE,
                                     features |-> [kind |-> "List", list |-> <<>>]],
                       profile |-> PROFILE_DIST,
                       expected_artifacts |-> [i \in 1..Len(artifacts) |-> i - 1]] >>
        distributables ==
            [i \in 1..Len(artifacts) |->
                distributable_for(packages, targets, dist_dir, workspace_dir,
                                  root_files, i - 1, artifacts[i])]
    IN  [target_dir |-> target_dir,
         workspace_dir |-> workspace_dir,
         dist_dir |-> dist_dir,
         targets |-> targets,
         artifacts |-> artifacts,
         distributables |-> distributables,
         releases |-> [i \in 1..Len(release_order) |->
                          release_for(packages, artifacts, release_order[i])]]

\* the keys of the releases map gather_work fills
release_keys(packages) ==
    {ReleaseKey(packages, exe) : exe \in Range(artifacts_for_cargo_packages(0, packages))}

(***************************************************************************)
(* Maps (HashMap, and the file system as maps from paths)                  *)
(***************************************************************************)
EmptyMap == [k \in {} |-> k]
Insert(map, key, value) == (key :> value) @@ map
Remove(map, key) == [k \in DOMAIN map \ {key} |-> map[k]]

(***************************************************************************)
(* The compiler child and its message stream                               *)
(***************************************************************************)
\* the number of messages the child may emit in one build
MaxMessages == 3

EXE_T_A == <<"t", "/", "a">>
EXE_T_A_EXE == <<"t", "/", "a", ".", "e", "x", "e">>
EXE_U_A == <<"u", "/", "a">>
EXE_T_B == <<"t", "/", "b">>
\* the executable paths a compiler-artifact message may carry; the last one
\* has no file stem
ExePaths == {EXE_T_A, EXE_T_A_EXE, EXE_U_A, EXE_T_B, DOTDOT}
\* the packages a message may name; PKG_R is in no workspace of the model
MessagePackages == {PKG_P, PKG_Q, PKG_R}

\* cargo_metadata::Message as parse_stream yields it: a line that fails to
\* parse, a message of another kind, or a compiler-artifact
Unparsable == [kind |-> "Unparsable"]
OtherMessage == [kind |-> "Other"]
CompilerArtifact(package_id, executable) ==
    [kind |-> "CompilerArtifact", package_id |-> package_id, executable |-> executable]
Messages ==
    {Unparsable, OtherMessage}
    \cup {CompilerArtifact(p, None) : p \in MessagePackages}
    \cup {CompilerArtifact(p, Some(e)) : p \in MessagePackages, e \in ExePaths}

\* the content of an executable the compiler links for a package
LinkedBy(package_id) == package_id

(***************************************************************************)
(* build_cargo_target                                                      *)
(***************************************************************************)
\* the two-level map expected_exes, keyed by <<package_id, exe_name>>
ExeKey(exe) == <<exe.package_id, exe.exe_name>>

\* entries for all the binaries we expect to find, with empty paths
seed_expected_exes(dist_, target) ==
    LET idxs == Range(target.expected_artifacts)
        keys == {ExeKey(At(dist_.artifacts, a)) : a \in idxs}
    IN  [k \in keys |->
            LET a == CHOOSE a \in idxs :
                        /\ ExeKey(At(dist_.artifacts, a)) = k
                        /\ \A b \in idxs : ExeKey(At(dist_.artifacts, b)) = k => b <= a
            IN  [idx |-> a, path |-> <<>>]]

\* whether handling the message panics: file_stem().unwrap() on a path
\* that has no file stem
message_panics(message) ==
    /\ message.kind = "CompilerArtifact"
    /\ message.executable.some
    /\ ~file_stem(message.executable.val).some

\* on_message with the lookup by executable stem alone, in any package
on_message_any_package(expected, message) ==
    IF message.kind = "CompilerArtifact" /\ message.executable.some
    THEN LET new_exe == message.executable.val
         IN  [k \in DOMAIN expected |->
                IF k[2] = file_stem(new_exe).val
                THEN [expected[k] EXCEPT !.path = new_exe]
                ELSE expected[k]]
    ELSE expected

\* expected_exes after one message of the stream that does not panic
on_message(expected, message) ==
    IF message.kind = "CompilerArtifact" /\ message.executable.some
    THEN LET new_exe == message.executable.val
             key == <<message.package_id, file_stem(new_exe).val>>
         IN  IF key \in DOMAIN expected
             THEN [expected EXCEPT ![key].path = new_exe]
             ELSE expected
    ELSE expected

\* missing_exes with the check of the paths left out
missing_exes_unchecked(expected) == {}

\* the entries whose path is still empty after the stream
missing_exes(expected) == {k \in DOMAIN expected : expected[k].path = <<>>}

\* the map with the expected binary of the least idx alone
built_exes_of_first(expected) ==
    LET idxs == {expected[k].idx : k \in DOMAIN expected}
    IN  [a \in {i \in idxs : \A j \in idxs : i <= j} |->
            expected[CHOOSE k \in DOMAIN expected : expected[k].idx = a].path]

\* the map artifact idx => path the build returns
built_exes_of(expected) ==
    [a \in {expected[k].idx : k \in DOMAIN expected} |->
        expected[CHOOSE k \in DOMAIN expected : expected[k].idx = a].path]

\* miette!("failed to find bin {} for {}", exe, package_id)
FailedToFindBin(key) == [kind |-> "failed to find bin", exe |-> key[2], package_id |-> key[1]]
FailedToExec == [kind |-> "failed to exec cargo build"]

(***************************************************************************)
(* The file system: the compiler's output files and the workspace's asset  *)
(* files (path -> content), the staging directories (directory -> file     *)
(* name -> content) and the archives (path -> archive).                    *)
(***************************************************************************)
STALE == <<"z">>
\* the content of a workspace file
AssetContent(path) == path

\* std::fs::copy(from, dir.join(name)): the directory afterwards
copy_into(dir_files, name, content) == Insert(dir_files, name, content)

\* populate_distributable_dirs_with_built_artifact: the staging directories
\* after the artifact is copied into every distributable that requires it
populate_with_built_artifact(dist_, dirs, artifact_idx, built_artifact, content) ==
    LET wanted == {d \in Range(dist_.distributables) : artifact_idx \in d.required_artifacts}
        artifact_file_name == file_name(built_artifact).val
    IN  [dir \in DOMAIN dirs |->
            IF \E d \in wanted : d.dir_path = dir
            THEN copy_into(dirs[dir], artifact_file_name, content)
            ELSE dirs[dir]]

\* populate_distributable_dir_with_assets: the staging directory afterwards
RECURSIVE populate_with_assets(_, _)
populate_with_assets(dir_files, assets) ==
    IF assets = <<>> THEN dir_files
    ELSE populate_with_assets(
            copy_into(dir_files, file_name(Head(assets)).val, AssetContent(Head(assets))),
            Tail(assets))

\* zip_distributable: every file of the staging directory, stored, under
\* its file name
zip_distributable(distrib, dir_files) ==
    [format |-> "zip", method |-> "Stored", top |-> None, files |-> dir_files]

\* the compression stream tar_distributable wraps the file in
compression_stream(compression) ==
    CASE compression = "Gzip" -> "GzEncoder"
      [] compression = "Xzip" -> "XzEncoder"
      [] compression = "Zstd" -> "ZlibEncoder"

\* tar_distributable: tar.append_dir_all(full_name, dir_path) into the
\* compression stream
tar_distributable(distrib, dir_files, compression) ==
    [format |-> "tar", method |-> compression_stream(compression),
     top |-> Some(distrib.full_name), files |-> dir_files]

bundle_distributable(distrib, dir_files) ==
    IF distrib.bundle.style = "Zip"
    THEN zip_distributable(distrib, dir_files)
    ELSE tar_distributable(distrib, dir_files, distrib.bundle.compression)

\* the kind tag do_dist gives a distributable of the report
distributable_kind(distrib) == "Zip"

\* the Release entries of the DistReport
report_of(dist_, built) ==
    [r \in DOMAIN dist_.releases |->
        LET release == dist_.releases[r]
        IN  [app_name |-> release.app_name,
             app_version |-> release.version,
             distributables |->
                [j \in DOMAIN release.distributables |->
                    LET distrib == At(dist_.distributables, release.distributables[j])
                    IN  [path |-> distrib.file_path,
                         target_triple |-> distrib.target_triple,
                         artifacts |->
                            {[name |-> At(dist_.artifacts, a).exe_name,
                              path |-> file_name(built[a]).val]
                             : a \in distrib.required_artifacts},
                         kind |-> distributable_kind(distrib)]]]]

\* built_artifacts[artifact_idx] panics when the key is missing
report_panics(dist_, built) ==
    \E r \in DOMAIN dist_.releases :
        \E d \in Range(dist_.releases[r].distributables) :
            \E a \in At(dist_.distributables, d).required_artifacts : a \notin DOMAIN built

(***************************************************************************)
(* do_dist: the state of a run                                             *)
(***************************************************************************)
VARIABLES
    workspace,            \* the packages of the workspace
    host_target_triple,   \* what `cargo -vV` reports as host
    root_files,           \* the BUILTIN_FILES present in the workspace root
    pc,                   \* where do_dist is
    release_order,        \* the order the releases map was iterated in
    distrib_i,            \* the distributable a loop over dist.distributables is at
    target_i,             \* the build target the loop over dist.targets is at
    task,                 \* the compiler child
    n_messages,           \* messages read from the child's stdout
    expected_exes,        \* build_cargo_target's expected_exes
    new_built_artifacts,  \* what the last build returned
    to_copy,              \* the entries of new_built_artifacts still to be copied
    built_artifacts,      \* artifact idx => path, of all builds so far
    target_files,         \* the compiler's output files: path -> content
    staging,              \* the staging directories: dir -> file name -> content
    archives,             \* the archives: path -> archive
    report,               \* the DistReport returned, if any
    error                 \* the error returned, if any

inputs == <<workspace, host_target_triple, root_files>>
build_vars == <<task, n_messages, expected_exes, new_built_artifacts, to_copy, built_artifacts>>
fs_vars == <<target_files, staging, archives>>
dist_vars == <<inputs, pc, release_order, distrib_i, target_i, build_vars, fs_vars, report, error>>

\* the state of a build that uses the reconciler (BuildExpectations)
VARIABLES
    bins_pc,          \* where the build that uses the reconciler is
    binaries,         \* the binaries of the DistGraph
    expectations,     \* the BuildExpectations
    n_found,          \* calls of found_bin so far
    build_output,     \* the files of the build output: path -> content
    manifest_assets,  \* DistManifest.assets
    dest_files,       \* the files at the copy destinations: path -> content
    analyzer_calls,   \* the paths determine_linkage was called with, in order
    bins_result       \* what process_bins returned, if it has

bins_vars == <<bins_pc, binaries, expectations, n_found, build_output,
               manifest_assets, dest_files, analyzer_calls, bins_result>>

\* the state of the compiler child's standard output and of the loop of
\* build_cargo_target that reads it
VARIABLES
    stream_pc,        \* where build_cargo_target is with the stream
    pipe_capacity,    \* the messages the pipe holds before a write blocks
    emits,            \* the messages the child emits before it closes stdout
    n_written,        \* the messages the child has written
    pipe,             \* the messages written and not yet read
    stdout_closed,    \* the child has closed its standard output
    n_read,           \* the messages the loop has taken from the reader
    stream_expected   \* expected_exes of this build

stream_vars == <<stream_pc, pipe_capacity, emits, n_written, pipe, stdout_closed,
                 n_read, stream_expected>>

\* a sequence of found_bin calls made in two orders
VARIABLES
    reorder_pc,              \* where the two runs are
    calls,                   \* the calls of found_bin, as the build made them
    permutation,             \* the order the second run makes them in
    permuted_expectations,   \* the BuildExpectations of the second run
    results                  \* what process_bins returned to the two runs

reorder_vars == <<reorder_pc, calls, permutation, permuted_expectations, results>>

\* a target triple and its parsed view
VARIABLES
    parse_pc,   \* where the conversion is
    triple,     \* the TargetTriple handed to TargetTripleParsed::from
    parsed,     \* the TargetTripleParsed it returned
    answers     \* what its predicates returned

parse_vars == <<parse_pc, triple, parsed, answers>>

\* the invocation of the compiler for one build build_target
VARIABLES
    command_pc,   \* where the construction of the command is
    build_target,       \* the CargoBuildTarget to build
    command       \* the arguments given to the Command so far

command_vars == <<command_pc, build_target, command>>

\* the state of one call of tar_distributable
VARIABLES
    tar_pc,           \* where tar_distributable is
    tar_distrib,      \* the distributable it bundles
    staged,           \* the files of its staging directory: name -> content
    final_zip_file,   \* the file at file_path and what has been written to it
    tar_error         \* the error returned, if any

tar_vars == <<tar_pc, tar_distrib, staged, final_zip_file, tar_error>>

\* the state of the runs of do_init
VARIABLES
    init_pc,            \* where do_init is
    manifest_file,      \* the root Cargo.toml on disk
    manifest_at_start,  \* the file as it was when the run started
    root_package,       \* workspace.root_package.is_some()
    workspace_toml,     \* the document being edited
    init_results        \* what the runs so far returned

init_vars == <<init_pc, manifest_file, manifest_at_start, root_package, workspace_toml,
               init_results>>

other_than_dist == <<bins_vars, stream_vars, reorder_vars, parse_vars, command_vars,
                      tar_vars, init_vars>>
other_than_bins == <<dist_vars, stream_vars, reorder_vars, parse_vars, command_vars,
                      tar_vars, init_vars>>
other_than_stream == <<dist_vars, bins_vars, reorder_vars, parse_vars, command_vars,
                      tar_vars, init_vars>>
other_than_reorder == <<dist_vars, stream_vars, parse_vars, command_vars,
                      tar_vars, init_vars>>
other_than_parse == <<dist_vars, bins_vars, stream_vars, reorder_vars, command_vars,
                      tar_vars, init_vars>>
other_than_command == <<dist_vars, bins_vars, stream_vars, reorder_vars, parse_vars,
                      tar_vars, init_vars>>

other_than_tar == <<dist_vars, bins_vars, stream_vars, reorder_vars, parse_vars, command_vars,
                    init_vars>>
other_than_init == <<dist_vars, bins_vars, stream_vars, reorder_vars, parse_vars, command_vars,
                     tar_vars>>

NoGraph == [targets |-> <<>>, artifacts |-> <<>>, distributables |-> <<>>, releases |-> <<>>]
\* the DistGraph: `let dist = gather_work()?`, the same for the whole run
dist ==
    IF pc = "gather_work" THEN NoGraph
    ELSE gather_work(workspace, host_target_triple, root_files, release_order)
NoTask == [state |-> "none"]
Running == [state |-> "running"]
Exited(success) == [state |-> "exited", success |-> success]

\* what an earlier run may have left in the dist dir: a staging directory
\* and an archive per distributable of the same workspace, with a file of
\* that run's in each
LeftStaging(packages, host, files) ==
    LET ds == Range(gather_work(packages, host, files, <<>>).distributables)
    IN  [dir \in {d.dir_path : d \in ds} |-> (STALE :> STALE)]
LeftArchives(packages, host, files) ==
    LET ds == gather_work(packages, host, files, <<>>).distributables
    IN  [path \in {d.file_path : d \in Range(ds)} |->
            LET d == CHOOSE d \in Range(ds) : d.file_path = path
            IN  bundle_distributable(d, (STALE :> STALE))]

DistInit ==
    /\ workspace \in Workspaces
    /\ host_target_triple \in HostTriples
    /\ root_files \in RootFileSets
    /\ pc = "gather_work"
    /\ release_order = <<>>
    /\ distrib_i = 0
    /\ target_i = 0
    /\ task = NoTask
    /\ n_messages = 0
    /\ expected_exes = EmptyMap
    /\ new_built_artifacts = EmptyMap
    /\ to_copy = {}
    /\ built_artifacts = EmptyMap
    /\ target_files = EmptyMap
    /\ \E left \in BOOLEAN :
        /\ staging = IF left THEN LeftStaging(workspace, host_target_triple, root_files)
                             ELSE EmptyMap
        /\ archives = IF left THEN LeftArchives(workspace, host_target_triple, root_files)
                              ELSE EmptyMap
    /\ report = None
    /\ error = None

\* where do_dist goes once the loop over dist.distributables that
\* initializes the directories is at distributable i
after_init(dist_, i) == IF i < Len(dist_.distributables) THEN "init_dirs" ELSE "build"
\* where it goes once the loop over dist.targets is at target t
after_build(dist_, t) == IF t < Len(dist_.targets) THEN "build" ELSE "bundle"
\* where it goes once the loop that builds the bundles is at distributable i
after_bundle(dist_, i) == IF i < Len(dist_.distributables) THEN "bundle" ELSE "report"

\* let dist = gather_work()?
GatherWork ==
    /\ pc = "gather_work"
    /\ release_order' \in IterationOrders(release_keys(workspace))
    /\ pc' = after_init(gather_work(workspace, host_target_triple, root_files, release_order'), 0)
    /\ UNCHANGED <<inputs, distrib_i, target_i, build_vars, fs_vars, report, error>>
    /\ UNCHANGED other_than_dist

\* init_dir that keeps a directory that exists, as create_dir_all does
init_dir_keeps_existing(dirs, distrib) ==
    IF distrib.dir_path \in DOMAIN dirs THEN dirs
    ELSE Insert(dirs, distrib.dir_path, EmptyMap)

\* init_distributable_dir: the staging directories and the archives afterwards
init_dir(dirs, distrib) == Insert(dirs, distrib.dir_path, EmptyMap)
init_archive(archs, distrib) == Remove(archs, distrib.file_path)

InitDistributableDir ==
    /\ pc = "init_dirs"
    /\ LET distrib == At(dist.distributables, distrib_i)
       IN  /\ staging' = init_dir(staging, distrib)
           /\ archives' = init_archive(archives, distrib)
    /\ distrib_i' = IF after_init(dist, distrib_i + 1) = "init_dirs" THEN distrib_i + 1 ELSE 0
    /\ pc' = after_init(dist, distrib_i + 1)
    /\ UNCHANGED <<inputs, release_order, target_i, build_vars, target_files, report, error>>
    /\ UNCHANGED other_than_dist

\* build_cargo_target, when the child cannot be spawned
SpawnFails ==
    /\ pc = "build"
    /\ error' = Some(FailedToExec)
    /\ pc' = "failed"
    /\ UNCHANGED <<inputs, release_order, distrib_i, target_i, build_vars, fs_vars, report>>
    /\ UNCHANGED other_than_dist

\* build_cargo_target up to the loop over the child's messages
Spawn ==
    /\ pc = "build"
    /\ task' = Running
    /\ expected_exes' = seed_expected_exes(dist, At(dist.targets, target_i))
    /\ n_messages' = 0
    /\ pc' = "stream"
    /\ UNCHANGED <<inputs, release_order, distrib_i, target_i, new_built_artifacts, to_copy,
                   built_artifacts, fs_vars, report, error>>
    /\ UNCHANGED other_than_dist

\* the compiler's files after it emits the message: it has linked the
\* executable it reports
child_writes(files, message) ==
    IF /\ message.kind = "CompilerArtifact"
       /\ message.executable.some
       /\ file_name(message.executable.val).some
    THEN Insert(files, message.executable.val, LinkedBy(message.package_id))
    ELSE files

\* one turn of the loop over Message::parse_stream
ReadMessage(message) ==
    /\ pc = "stream"
    /\ n_messages < MaxMessages
    /\ n_messages' = n_messages + 1
    /\ target_files' = child_writes(target_files, message)
    /\ IF message_panics(message)
       THEN /\ pc' = "panicked"
            /\ UNCHANGED expected_exes
       ELSE /\ pc' = pc
            /\ expected_exes' = on_message(expected_exes, message)
    /\ UNCHANGED <<inputs, release_order, distrib_i, target_i, task, new_built_artifacts, to_copy,
                   built_artifacts, staging, archives, report, error>>
    /\ UNCHANGED other_than_dist

\* artifacts_to_copy with the loop run over built_artifacts, which the new
\* entries are not yet part of
artifacts_to_copy_of_earlier_builds(new_built) == DOMAIN built_artifacts

\* the for loop over &new_built_artifacts copies these entries
artifacts_to_copy(new_built) == DOMAIN new_built

\* built_artifacts.extend(new_built_artifacts), and on to the next target
FinishTarget(new_built) ==
    /\ built_artifacts' = new_built @@ built_artifacts
    /\ target_i' = target_i + 1
    /\ pc' = after_build(dist, target_i + 1)

\* the stream ends (the child has exited, with or without success): the
\* check that every expected binary was found, and the return to do_dist
EndOfStream(success) ==
    /\ pc = "stream"
    /\ task' = Exited(success)
    /\ IF missing_exes(expected_exes) # {}
       THEN /\ \E key \in missing_exes(expected_exes) : error' = Some(FailedToFindBin(key))
            /\ pc' = "failed"
            /\ UNCHANGED <<new_built_artifacts, to_copy, built_artifacts, target_i>>
       ELSE /\ new_built_artifacts' = built_exes_of(expected_exes)
            /\ to_copy' = artifacts_to_copy(new_built_artifacts')
            /\ IF to_copy' = {}
               THEN FinishTarget(new_built_artifacts')
               ELSE pc' = "populate" /\ UNCHANGED <<built_artifacts, target_i>>
            /\ UNCHANGED error
    /\ UNCHANGED <<inputs, release_order, distrib_i, n_messages, expected_exes, fs_vars, report>>
    /\ UNCHANGED other_than_dist

\* one turn of the loop over &new_built_artifacts
CopyBuiltArtifact(artifact_idx) ==
    /\ pc = "populate"
    /\ artifact_idx \in to_copy
    /\ LET built_artifact == new_built_artifacts[artifact_idx]
       IN  staging' = populate_with_built_artifact(dist, staging, artifact_idx,
                          built_artifact, target_files[built_artifact])
    /\ to_copy' = to_copy \ {artifact_idx}
    /\ IF to_copy' = {}
       THEN FinishTarget(new_built_artifacts)
       ELSE UNCHANGED <<pc, built_artifacts, target_i>>
    /\ UNCHANGED <<inputs, release_order, distrib_i, task, n_messages, expected_exes,
                   new_built_artifacts, target_files, archives, report, error>>
    /\ UNCHANGED other_than_dist

\* one turn of the loop that builds the bundles
BundleDistributable ==
    /\ pc = "bundle"
    /\ after_bundle(dist, distrib_i) = "bundle"
    /\ LET distrib == At(dist.distributables, distrib_i)
           dir_files == populate_with_assets(staging[distrib.dir_path], distrib.assets)
       IN  /\ staging' = [staging EXCEPT ![distrib.dir_path] = dir_files]
           /\ archives' = Insert(archives, distrib.file_path,
                                 bundle_distributable(distrib, dir_files))
    /\ distrib_i' = distrib_i + 1
    /\ pc' = after_bundle(dist, distrib_i + 1)
    /\ UNCHANGED <<inputs, release_order, target_i, build_vars, target_files, report, error>>
    /\ UNCHANGED other_than_dist

\* a workspace without distributables has no bundle to build
NoBundle ==
    /\ pc = "bundle"
    /\ after_bundle(dist, distrib_i) = "report"
    /\ pc' = "report"
    /\ UNCHANGED <<inputs, release_order, distrib_i, target_i, build_vars, fs_vars, report, error>>
    /\ UNCHANGED other_than_dist

\* report the releases
Report ==
    /\ pc = "report"
    /\ IF report_panics(dist, built_artifacts)
       THEN pc' = "panicked" /\ UNCHANGED report
       ELSE pc' = "done" /\ report' = Some(report_of(dist, built_artifacts))
    /\ UNCHANGED <<inputs, release_order, distrib_i, target_i, build_vars, fs_vars, error>>
    /\ UNCHANGED other_than_dist

DistNext ==
    \/ GatherWork
    \/ InitDistributableDir
    \/ SpawnFails
    \/ Spawn
    \/ \E message \in Messages : ReadMessage(message)
    \/ \E success \in BOOLEAN : EndOfStream(success)
    \/ \E artifact_idx \in to_copy : CopyBuiltArtifact(artifact_idx)
    \/ BundleDistributable
    \/ NoBundle
    \/ Report

(***************************************************************************)
(* The build-output reconciler (src/cargo-dist/src/build/mod.rs)           *)
(***************************************************************************)
PDB == <<"p", "d", "b">>
FAKELIB == <<"f", "a", "k", "e", "l", "i", "b">>
SYM_T_A_PDB == <<"t", "/", "a", ".", "p", "d", "b">>
SYM_T_A_TXT == <<"t", "/", "a", ".", "t", "x", "t">>
DEST_D_A == <<"d", "/", "a">>
DEST_E_A == <<"e", "/", "a">>
DEST_D_B == <<"d", "/", "b">>
DEST_D_A_PDB == <<"d", "/", "a", ".", "p", "d", "b">>
ID_0 == <<"i", "0">>
ID_1 == <<"i", "1">>

\* a Binary of the DistGraph, with the fields BuildExpectations reads
DistBinary(pkg_id, name, id, copy_exe_to, copy_symbols_to) ==
    [pkg_id |-> pkg_id, name |-> name, id |-> id, target |-> HOST_WINDOWS_MSVC,
     copy_exe_to |-> copy_exe_to, copy_symbols_to |-> copy_symbols_to]

\* the binaries of the graphs the reconciler is run on: none; one; two of
\* one package; the same name in two packages; a generic build's binary (no
\* package id) and a package's; one (package, name) expected twice
BinaryGraphs ==
    { <<>>,
      <<DistBinary(Some(PKG_P), BIN_A, ID_0, <<DEST_D_A>>, <<DEST_D_A_PDB>>)>>,
      <<DistBinary(Some(PKG_P), BIN_A, ID_0, <<DEST_D_A, DEST_E_A>>, <<DEST_D_A_PDB>>),
        DistBinary(Some(PKG_P), BIN_B, ID_1, <<DEST_D_B>>, <<>>)>>,
      <<DistBinary(Some(PKG_P), BIN_A, ID_0, <<DEST_D_A>>, <<DEST_D_A_PDB>>),
        DistBinary(Some(PKG_Q), BIN_A, ID_1, <<DEST_E_A>>, <<>>)>>,
      <<DistBinary(None, BIN_A, ID_0, <<DEST_D_A>>, <<>>),
        DistBinary(Some(PKG_P), BIN_B, ID_1, <<DEST_D_B>>, <<>>)>>,
      <<DistBinary(Some(PKG_P), BIN_A, ID_0, <<DEST_D_A>>, <<>>),
        DistBinary(Some(PKG_P), BIN_A, ID_1, <<DEST_E_A>>, <<>>)>> }

\* the package id or an empty string (for generic builds)
package_id_string(id) == IF id.some THEN id.val ELSE <<>>

ExpectedBinary(idx) == [idx |-> idx, src_path |-> None, sym_paths |-> <<>>]

\* the packages map of BuildExpectations::new: one entry per expected
\* binary, a later binary with the same package and name replacing an
\* earlier one
RECURSIVE new_packages(_, _)
new_packages(dist_, expected_binaries) ==
    IF expected_binaries = <<>> THEN EmptyMap
    ELSE LET n == Len(expected_binaries)
             binary_idx == expected_binaries[n]
             binary == At(dist_, binary_idx)
             packages == new_packages(dist_, SubSeq(expected_binaries, 1, n - 1))
             package_id == package_id_string(binary.pkg_id)
             exe_name == binary.name
             entry == IF package_id \in DOMAIN packages
                      THEN packages[package_id] ELSE EmptyMap
         IN  Insert(packages, package_id,
                    Insert(entry, exe_name, ExpectedBinary(binary_idx)))

\* new keyed by binary name alone: every entry under the empty package id
new_ignoring_package(dist_, expected_binaries) ==
    LET names == {At(dist_, expected_binaries[i]).name : i \in DOMAIN expected_binaries}
        last(name) == CHOOSE i \in DOMAIN expected_binaries :
                          /\ At(dist_, expected_binaries[i]).name = name
                          /\ \A j \in DOMAIN expected_binaries :
                                At(dist_, expected_binaries[j]).name = name => j <= i
    IN  [packages |-> IF names = {} THEN EmptyMap
                      ELSE Insert(EmptyMap, <<>>,
                                  [name \in names |->
                                      ExpectedBinary(expected_binaries[last(name)])]),
         fake |-> FALSE]

new(dist_, expected_binaries) ==
    [packages |-> new_packages(dist_, expected_binaries), fake |-> FALSE]

new_fake(dist_, expected_binaries) ==
    [new(dist_, expected_binaries) EXCEPT !.fake = TRUE]

\* every path with an extension taken for a symbol file
is_symbols_any_extension(sym_path) == extension(sym_path).some

\* FIXME of the code: only "pdb" is a symbol file
is_symbols(sym_path) ==
    LET e == extension(sym_path) IN e.some /\ e.val = PDB

\* found_bin with entry().or_default() lookups: a package or a binary that
\* is not expected gets an entry
found_bin_or_default(self, pkg_id, src_path, maybe_symbols) ==
    LET bin_name == file_stem(src_path)
        pkg == IF pkg_id \in DOMAIN self.packages THEN self.packages[pkg_id] ELSE EmptyMap
    IN  IF ~bin_name.some THEN self
        ELSE LET bin_result == IF bin_name.val \in DOMAIN pkg THEN pkg[bin_name.val]
                               ELSE ExpectedBinary(0)
             IN  [self EXCEPT !.packages =
                    Insert(@, pkg_id,
                        Insert(pkg, bin_name.val,
                            [bin_result EXCEPT
                                !.src_path = Some(src_path),
                                !.sym_paths = @ \o SelectSeq(maybe_symbols, is_symbols)]))]

\* found_bin with the lookup by stem alone: the binary of that name is
\* recorded in every package that expects it
found_bin_by_stem(self, pkg_id, src_path, maybe_symbols) ==
    LET bin_name == file_stem(src_path)
    IN  IF ~bin_name.some THEN self
        ELSE [self EXCEPT !.packages =
                [pkg \in DOMAIN @ |->
                    [name \in DOMAIN @[pkg] |->
                        IF name = bin_name.val
                        THEN [@[pkg][name] EXCEPT
                                !.src_path = Some(src_path),
                                !.sym_paths = @ \o SelectSeq(maybe_symbols, is_symbols)]
                        ELSE @[pkg][name]]]]

\* found_bin with the symbols of the call replacing those recorded
found_bin_replacing_symbols(self, pkg_id, src_path, maybe_symbols) ==
    IF pkg_id \notin DOMAIN self.packages THEN self
    ELSE LET bin_name == file_stem(src_path)
         IN  IF ~bin_name.some THEN self
             ELSE IF bin_name.val \notin DOMAIN self.packages[pkg_id] THEN self
             ELSE [self EXCEPT
                     !.packages[pkg_id][bin_name.val] =
                         [@ EXCEPT !.src_path = Some(src_path),
                                   !.sym_paths = SelectSeq(maybe_symbols, is_symbols)]]

\* BuildExpectations::found_bin
found_bin(self, pkg_id, src_path, maybe_symbols) ==
    IF pkg_id \notin DOMAIN self.packages THEN self
    ELSE LET bin_name == file_stem(src_path)
         IN  IF ~bin_name.some THEN self
             ELSE IF bin_name.val \notin DOMAIN self.packages[pkg_id] THEN self
             ELSE [self EXCEPT
                     !.packages[pkg_id][bin_name.val] =
                         [@ EXCEPT !.src_path = Some(src_path),
                                   !.sym_paths = @ \o SelectSeq(maybe_symbols, is_symbols)]]


\* the entries of the sorted maps in the order process_bins visits them: by
\* package id, then by binary name
KeyLess(k1, k2) ==
    \/ StrLess(k1[1], k2[1])
    \/ k1[1] = k2[1] /\ StrLess(k1[2], k2[2])
ExpectedKeys(self) ==
    UNION {{pkg_id} \X DOMAIN self.packages[pkg_id] : pkg_id \in DOMAIN self.packages}
RECURSIVE Sorted(_)
Sorted(keys) ==
    IF keys = {} THEN <<>>
    ELSE LET least == CHOOSE k \in keys : \A o \in keys \ {k} : KeyLess(k, o)
         IN  <<least>> \o Sorted(keys \ {least})

MissingBinaries(pkg_name, bin_name) ==
    [kind |-> "MissingBinaries", pkg_name |-> pkg_name, bin_name |-> bin_name]
LinkageError(src_path) == [kind |-> "Linkage", path |-> src_path]
CopyError(src_path, dest_path) == [kind |-> "Copy", path |-> src_path, dest |-> dest_path]
Ok == [ok |-> TRUE]
Err(e) == [ok |-> FALSE, err |-> e]

\* Path::exists on the build output
exists(env, path) == path \in DOMAIN env.build_output

\* determine_linkage: the report of the analyzer, or its error
determine_linkage(env, src_path, target) ==
    IF src_path \in env.linkage_errs THEN Err(LinkageError(src_path))
    ELSE [ok |-> TRUE, val |-> [analyzed |-> src_path, target |-> target]]

\* copy_file: the destination gets the content of the source
copy_file(env, st, src_path, dest_path) ==
    IF ~exists(env, src_path) \/ dest_path \in env.copy_errs
    THEN [st EXCEPT !.err = Some(CopyError(src_path, dest_path))]
    ELSE [st EXCEPT !.files = Insert(@, dest_path, env.build_output[src_path])]

\* cargo_dist_schema::Linkage::default(): every bucket empty
DefaultLinkage ==
    [system |-> {}, homebrew |-> {}, public_unmanaged |-> {}, frameworks |-> {}, other |-> {}]

\* compute_linkage with the analyzer run on fake builds too
compute_linkage_never_fake(self, dist_, env, st, src, target) ==
    LET src_path == src.src_path.val
        linkage == determine_linkage(env, src_path, target)
        bin == At(dist_, src.idx)
        called == [st EXCEPT !.analyzed = Append(@, src_path)]
    IN  IF ~linkage.ok THEN [called EXCEPT !.err = Some(linkage.err)]
        ELSE [called EXCEPT !.assets =
                 Insert(@, bin.id, [id |-> bin.id, name |-> bin.name,
                                    linkage |-> Some(linkage.val)])]

\* BuildExpectations::compute_linkage (the system id of the graph, the same
\* in every AssetInfo, is left out)
compute_linkage(self, dist_, env, st, src, target) ==
    LET src_path == src.src_path.val
        linkage == IF self.fake
                   THEN [ok |-> TRUE,
                         val |-> [DefaultLinkage EXCEPT
                                    !.other = @ \cup {[path |-> FAKELIB, source |-> None]}]]
                   ELSE determine_linkage(env, src_path, target)
        bin == At(dist_, src.idx)
        called == IF self.fake THEN st ELSE [st EXCEPT !.analyzed = Append(@, src_path)]
    IN  IF ~linkage.ok THEN [called EXCEPT !.err = Some(linkage.err)]
        ELSE [called EXCEPT !.assets =
                 Insert(@, bin.id, [id |-> bin.id, name |-> bin.name,
                                    linkage |-> Some(linkage.val)])]

\* the copies copy_assets makes, in its order: the main binary to each of
\* copy_exe_to, then each symbol file to each of copy_symbols_to
RECURSIVE symbol_copies(_, _)
symbol_copies(sym_paths, copy_symbols_to) ==
    IF sym_paths = <<>> THEN <<>>
    ELSE [i \in 1..Len(copy_symbols_to) |-> <<Head(sym_paths), copy_symbols_to[i]>>]
         \o symbol_copies(Tail(sym_paths), copy_symbols_to)
copies_of(src, dests) ==
    [i \in 1..Len(dests.copy_exe_to) |-> <<src.src_path.val, dests.copy_exe_to[i]>>]
    \o symbol_copies(src.sym_paths, dests.copy_symbols_to)

\* BuildExpectations::copy_assets: the first copy that fails ends it
RECURSIVE copy_all(_, _, _)
copy_all(env, st, copies) ==
    IF copies = <<>> \/ st.err.some THEN st
    ELSE copy_all(env, copy_file(env, st, Head(copies)[1], Head(copies)[2]), Tail(copies))
copy_assets(env, st, src, dests) == copy_all(env, st, copies_of(src, dests))

\* the copies made before the linkage is computed
process_entry_copy_first(self, dist_, env, st, pkg_id, bin_name) ==
    LET result_bin == self.packages[pkg_id][bin_name]
    IN  IF ~result_bin.src_path.some
        THEN [st EXCEPT !.missing = Append(@, <<pkg_id, bin_name>>)]
        ELSE IF ~exists(env, result_bin.src_path.val)
        THEN [st EXCEPT !.missing = Append(@, <<pkg_id, bin_name>>)]
        ELSE LET bin == At(dist_, result_bin.idx)
                 copied == copy_assets(env, st, result_bin, bin)
             IN  IF copied.err.some THEN copied
                 ELSE compute_linkage(self, dist_, env, copied, result_bin, bin.target)

\* an entry without a file passed over and not remembered
process_entry_forgets_missing(self, dist_, env, st, pkg_id, bin_name) ==
    LET result_bin == self.packages[pkg_id][bin_name]
    IN  IF ~result_bin.src_path.some
        THEN st
        ELSE IF ~exists(env, result_bin.src_path.val)
        THEN st
        ELSE LET bin == At(dist_, result_bin.idx)
                 linked == compute_linkage(self, dist_, env, st, result_bin, bin.target)
             IN  IF linked.err.some THEN linked
                 ELSE copy_assets(env, linked, result_bin, bin)

\* nothing linked or copied once a binary is known to be missing
process_entry_until_missing(self, dist_, env, st, pkg_id, bin_name) ==
    LET result_bin == self.packages[pkg_id][bin_name]
    IN  IF ~result_bin.src_path.some
        THEN [st EXCEPT !.missing = Append(@, <<pkg_id, bin_name>>)]
        ELSE IF ~exists(env, result_bin.src_path.val)
        THEN [st EXCEPT !.missing = Append(@, <<pkg_id, bin_name>>)]
        ELSE IF st.missing # <<>> THEN st
        ELSE LET bin == At(dist_, result_bin.idx)
                 linked == compute_linkage(self, dist_, env, st, result_bin, bin.target)
             IN  IF linked.err.some THEN linked
                 ELSE copy_assets(env, linked, result_bin, bin)

\* one turn of the loop of process_bins
process_entry(self, dist_, env, st, pkg_id, bin_name) ==
    LET result_bin == self.packages[pkg_id][bin_name]
    IN  IF ~result_bin.src_path.some
        THEN [st EXCEPT !.missing = Append(@, <<pkg_id, bin_name>>)]
        ELSE IF ~exists(env, result_bin.src_path.val)
        THEN [st EXCEPT !.missing = Append(@, <<pkg_id, bin_name>>)]
        ELSE LET bin == At(dist_, result_bin.idx)
                 linked == compute_linkage(self, dist_, env, st, result_bin, bin.target)
             IN  IF linked.err.some THEN linked
                 ELSE copy_assets(env, linked, result_bin, bin)

\* the loop of process_bins over the entries, which an error of
\* compute_linkage or copy_assets leaves at once
RECURSIVE process_loop(_, _, _, _, _)
process_loop(self, dist_, env, entries, st) ==
    IF entries = <<>> \/ st.err.some THEN st
    ELSE process_loop(self, dist_, env, Tail(entries),
                      process_entry(self, dist_, env, st, Head(entries)[1], Head(entries)[2]))

\* the missing binary named last, not first
first_missing_is_last(missing) == missing[Len(missing)]
\* "just returning the first"
first_missing(missing) == missing[1]

\* BuildExpectations::process_bins: the result, and the manifest assets and
\* the files at the copy destinations it leaves
process_bins(self, dist_, env, assets, files) ==
    LET st == process_loop(self, dist_, env, Sorted(ExpectedKeys(self)),
                           [missing |-> <<>>, assets |-> assets, files |-> files, analyzed |-> <<>>,
                            err |-> None])
        result == IF st.err.some THEN Err(st.err.val)
                  ELSE IF st.missing # <<>>
                  THEN Err(MissingBinaries(first_missing(st.missing)[1],
                                           first_missing(st.missing)[2]))
                  ELSE Ok
    IN  [result |-> result, assets |-> st.assets, files |-> st.files, analyzed |-> st.analyzed]

MaxFound == 2

NoExpectations == [packages |-> EmptyMap, fake |-> FALSE]

BinsIdle ==
    /\ bins_pc = "idle"
    /\ binaries = <<>>
    /\ expectations = NoExpectations
    /\ n_found = 0
    /\ build_output = EmptyMap
    /\ manifest_assets = EmptyMap
    /\ dest_files = EmptyMap
    /\ analyzer_calls = <<>>
    /\ bins_result = None

BinsInit ==
    /\ bins_pc = "new"
    /\ binaries \in BinaryGraphs
    /\ expectations = NoExpectations
    /\ n_found = 0
    /\ build_output = EmptyMap
    /\ manifest_assets = EmptyMap
    /\ dest_files = EmptyMap
    /\ analyzer_calls = <<>>
    /\ bins_result = None

\* every binary of the graph is expected, in the order of the graph
AllBinaryIdxs(dist_) == [i \in 1..Len(dist_) |-> i - 1]

NewExpectations ==
    /\ bins_pc = "new"
    /\ expectations' = new(binaries, AllBinaryIdxs(binaries))
    /\ bins_pc' = "build"
    /\ UNCHANGED <<binaries, n_found, build_output, manifest_assets, dest_files, analyzer_calls, bins_result>>
    /\ UNCHANGED other_than_bins

NewFakeExpectations ==
    /\ bins_pc = "new"
    /\ expectations' = new_fake(binaries, AllBinaryIdxs(binaries))
    /\ bins_pc' = "build"
    /\ UNCHANGED <<binaries, n_found, build_output, manifest_assets, dest_files, analyzer_calls, bins_result>>
    /\ UNCHANGED other_than_bins

\* what a build may report: the package, the path of the binary (the last
\* one has no file stem) and the paths that may be symbols
FoundPackages == {PKG_P, PKG_Q, PKG_R, <<>>}
FoundPaths == {EXE_T_A, EXE_T_A_EXE, EXE_T_B, DOTDOT}
SymbolLists == {<<>>, <<SYM_T_A_PDB, SYM_T_A_TXT>>}

RECURSIVE write_all(_, _, _)
write_all(files, paths, content) ==
    IF paths = <<>> THEN files
    ELSE write_all(Insert(files, Head(paths), content), Tail(paths), content)

\* The build reports a binary. The files it names are in the build output
\* or, `written` being false, they are not there when process_bins looks.
FoundBin(pkg_id, src_path, maybe_symbols, written) ==
    /\ bins_pc = "build"
    /\ n_found < MaxFound
    /\ n_found' = n_found + 1
    /\ build_output' = IF written
                       THEN write_all(build_output, <<src_path>> \o maybe_symbols, pkg_id)
                       ELSE build_output
    /\ expectations' = found_bin(expectations, pkg_id, src_path, maybe_symbols)
    /\ UNCHANGED <<bins_pc, binaries, manifest_assets, dest_files, analyzer_calls, bins_result>>
    /\ UNCHANGED other_than_bins

\* the located paths the linkage analyzer may fail on, and the destinations
\* a copy may fail at
LocatedPaths(self) ==
    {self.packages[k[1]][k[2]].src_path.val :
        k \in {e \in ExpectedKeys(self) : self.packages[e[1]][e[2]].src_path.some}}
CopyDestinations(dist_) ==
    UNION {Range(dist_[i].copy_exe_to) \cup Range(dist_[i].copy_symbols_to) : i \in 1..Len(dist_)}

AllCopyDestinations == UNION {CopyDestinations(dist_) : dist_ \in BinaryGraphs}

\* The build is complete: process_bins runs, the analyzer failing on the
\* paths of linkage_errs and copies failing at the destinations of copy_errs.
ProcessBins(linkage_errs, copy_errs) ==
    /\ bins_pc = "build"
    /\ linkage_errs \subseteq LocatedPaths(expectations)
    /\ copy_errs \subseteq CopyDestinations(binaries)
    /\    LET env == [build_output |-> build_output, linkage_errs |-> linkage_errs,
                      copy_errs |-> copy_errs]
              out == process_bins(expectations, binaries, env, manifest_assets, dest_files)
          IN  /\ bins_result' = Some(out.result)
              /\ manifest_assets' = out.assets
              /\ dest_files' = out.files
              /\ analyzer_calls' = out.analyzed
    /\ bins_pc' = "done"
    /\ UNCHANGED <<binaries, expectations, n_found, build_output>>
    /\ UNCHANGED other_than_bins

BinsNext ==
    \/ NewExpectations
    \/ NewFakeExpectations
    \/ \E pkg_id \in FoundPackages, src_path \in FoundPaths,
          maybe_symbols \in SymbolLists, written \in BOOLEAN :
          FoundBin(pkg_id, src_path, maybe_symbols, written)
    \/ \E linkage_errs \in SUBSET FoundPaths, copy_errs \in SUBSET AllCopyDestinations :
          ProcessBins(linkage_errs, copy_errs)

(***************************************************************************)
(* The child's standard output: a pipe between two processes               *)
(***************************************************************************)
MaxPipeCapacity == 2
MaxEmit == 3

\* what the child of this build may write
StreamMessages ==
    {Unparsable, OtherMessage, CompilerArtifact(PKG_P, None),
     CompilerArtifact(PKG_P, Some(EXE_T_A)), CompilerArtifact(PKG_Q, Some(EXE_T_A_EXE))}

\* the graphs whose one build target is run
StreamGraphs ==
    {gather_work(w, HOST_LINUX_GNU, {}, CHOOSE order \in IterationOrders(release_keys(w)) : TRUE) :
        w \in Workspaces}

StreamIdle ==
    /\ stream_pc = "idle"
    /\ pipe_capacity = 1
    /\ emits = 0
    /\ n_written = 0
    /\ pipe = <<>>
    /\ stdout_closed = FALSE
    /\ n_read = 0
    /\ stream_expected = EmptyMap

\* build_cargo_target has spawned the child and seeded expected_exes; the
\* child is to emit `emits` messages into a pipe of `pipe_capacity`
StreamInit ==
    /\ stream_pc = "reading"
    /\ pipe_capacity \in 1..MaxPipeCapacity
    /\ emits \in 0..MaxEmit
    /\ n_written = 0
    /\ pipe = <<>>
    /\ stdout_closed = FALSE
    /\ n_read = 0
    /\ \E g \in StreamGraphs : stream_expected = seed_expected_exes(g, At(g.targets, 0))

\* The child writes a message; the write blocks while the pipe is full.
ChildWrite(message) ==
    /\ ~stdout_closed
    /\ n_written < emits
    /\ Len(pipe) < pipe_capacity
    /\ pipe' = Append(pipe, message)
    /\ n_written' = n_written + 1
    /\ UNCHANGED <<stream_pc, pipe_capacity, emits, stdout_closed, n_read, stream_expected>>
    /\ UNCHANGED other_than_stream

\* The child has written all it had to and closes its standard output (it exits).
ChildCloses ==
    /\ ~stdout_closed
    /\ n_written = emits
    /\ stdout_closed' = TRUE
    /\ UNCHANGED <<stream_pc, pipe_capacity, emits, n_written, pipe, n_read, stream_expected>>
    /\ UNCHANGED other_than_stream

\* the loop reads after the child has exited only
reader_waits_for_exit(pipe_, closed) == closed /\ pipe_ # <<>>
\* Message::parse_stream on task.stdout: the loop takes a message as soon as
\* one is in the pipe, the child running or not; no wait() comes before it
reader_may_read(pipe_, closed) == pipe_ # <<>>

\* one turn of the loop over Message::parse_stream
StreamRead ==
    /\ stream_pc = "reading"
    /\ reader_may_read(pipe, stdout_closed)
    /\ pipe' = Tail(pipe)
    /\ n_read' = n_read + 1
    /\ IF message_panics(Head(pipe))
       THEN stream_pc' = "panicked" /\ UNCHANGED stream_expected
       ELSE stream_pc' = stream_pc /\ stream_expected' = on_message(stream_expected, Head(pipe))
    /\ UNCHANGED <<pipe_capacity, emits, n_written, stdout_closed>>
    /\ UNCHANGED other_than_stream

\* the reader is at the end of the stream: the pipe is empty and closed;
\* the loop ends and expected_exes is checked
StreamEnd ==
    /\ stream_pc = "reading"
    /\ pipe = <<>>
    /\ stdout_closed
    /\ stream_pc' = IF missing_exes(stream_expected) # {} THEN "failed" ELSE "returned"
    /\ UNCHANGED <<pipe_capacity, emits, n_written, pipe, stdout_closed, n_read, stream_expected>>
    /\ UNCHANGED other_than_stream

ChildStep == (\E message \in StreamMessages : ChildWrite(message)) \/ ChildCloses
ReaderStep == StreamRead \/ StreamEnd
StreamNext == ChildStep \/ ReaderStep

(***************************************************************************)
(* found_bin called in two orders                                          *)
(***************************************************************************)
MaxCalls == 2

ReorderPackages == {PKG_P, PKG_Q}
ReorderGraphs ==
    {dist_ \in BinaryGraphs :
        Len(dist_) = 2 /\ dist_[1].pkg_id.some /\ dist_[1].id # dist_[2].id
        /\ <<dist_[1].pkg_id, dist_[1].name>> # <<dist_[2].pkg_id, dist_[2].name>>}
Call(pkg_id, src_path, maybe_symbols) ==
    [pkg_id |-> pkg_id, src_path |-> src_path, maybe_symbols |-> maybe_symbols]
Calls ==
    {Call(pkg_id, src_path, maybe_symbols) :
        pkg_id \in ReorderPackages, src_path \in FoundPaths, maybe_symbols \in SymbolLists}
\* the (package id, stem) a call is for
CallKey(call) == <<call.pkg_id, file_stem(call.src_path)>>
DistinctKeys(cs) == \A i, j \in DOMAIN cs : i # j => CallKey(cs[i]) # CallKey(cs[j])
OrdersOf(n) == {f \in [1..n -> 1..n] : \A i, j \in 1..n : f[i] = f[j] => i = j}

\* found_bin called with each of the calls, in their order
RECURSIVE found_all(_, _)
found_all(self, cs) ==
    IF cs = <<>> THEN self
    ELSE found_all(found_bin(self, Head(cs).pkg_id, Head(cs).src_path, Head(cs).maybe_symbols),
                   Tail(cs))

ReorderIdle ==
    /\ reorder_pc = "idle"
    /\ calls = <<>>
    /\ permutation = <<>>
    /\ permuted_expectations = NoExpectations
    /\ results = <<>>

\* two BuildExpectations of one graph, and the calls the build is to make
ReorderInit ==
    /\ reorder_pc = "build"
    /\ \E n \in 0..MaxCalls :
        /\ calls \in {cs \in [1..n -> Calls] : DistinctKeys(cs)}
        /\ permutation \in OrdersOf(n)
    /\ binaries \in ReorderGraphs
    /\ \E fake \in BOOLEAN :
        expectations = IF fake THEN new_fake(binaries, AllBinaryIdxs(binaries))
                               ELSE new(binaries, AllBinaryIdxs(binaries))
    /\ permuted_expectations = expectations
    /\ results = <<>>
    /\ bins_pc = "idle"
    /\ n_found = 0
    /\ build_output = EmptyMap
    /\ manifest_assets = EmptyMap
    /\ dest_files = EmptyMap
    /\ analyzer_calls = <<>>
    /\ bins_result = None

\* the build: found_bin for every call, in the one order and in the other
FoundInBothOrders ==
    /\ reorder_pc = "build"
    /\ expectations' = found_all(expectations, calls)
    /\ permuted_expectations' =
          found_all(permuted_expectations, [i \in DOMAIN calls |-> calls[permutation[i]]])
    /\ reorder_pc' = "process"
    /\ UNCHANGED <<calls, permutation, results>>
    /\ UNCHANGED <<bins_pc, binaries, n_found, build_output, manifest_assets, dest_files,
                   analyzer_calls, bins_result>>
    /\ UNCHANGED other_than_reorder

\* nothing, or one thing: a file that is gone when process_bins looks, a
\* call of the analyzer that fails, a copy that fails
AtMostOneOf(S) == {{}} \cup {{x} : x \in S}
CallPaths(cs) == {cs[i].src_path : i \in DOMAIN cs}

\* process_bins of both, with the same files in the build output and the
\* same failures of the analyzer and of the copies
ProcessBoth(existing, linkage_errs, copy_errs) ==
    /\ reorder_pc = "process"
    /\ existing \subseteq CallPaths(calls)
    /\ linkage_errs \subseteq existing
    /\ copy_errs \subseteq CopyDestinations(binaries)
    /\ build_output' = [path \in existing |-> PKG_P]
    /\ LET env == [build_output |-> build_output', linkage_errs |-> linkage_errs,
                   copy_errs |-> copy_errs]
       IN  results' =
             << process_bins(expectations, binaries, env, EmptyMap, EmptyMap).result,
                process_bins(permuted_expectations, binaries, env, EmptyMap, EmptyMap).result >>
    /\ reorder_pc' = "done"
    /\ UNCHANGED <<calls, permutation, permuted_expectations>>
    /\ UNCHANGED <<bins_pc, binaries, expectations, n_found, manifest_assets, dest_files,
                   analyzer_calls, bins_result>>
    /\ UNCHANGED other_than_reorder

ReorderNext ==
    \/ FoundInBothOrders
    \/ \E existing \in {CallPaths(calls) \ gone : gone \in AtMostOneOf(CallPaths(calls))} :
          \E linkage_errs \in AtMostOneOf(existing),
             copy_errs \in AtMostOneOf(CopyDestinations(binaries)) :
              ProcessBoth(existing, linkage_errs, copy_errs)

(***************************************************************************)
(* Target triples (src/cargo-dist/src/platform/targets.rs)                 *)
(***************************************************************************)

\* the literal tables of the stringish enums: string, variant
ArchStrings ==
    {
    <<<<"i", "6", "8", "6">>, "I686">>,
    <<<<"x", "8", "6", "_", "6", "4">>, "X86_64">>,
    <<<<"a", "a", "r", "c", "h", "6", "4">>, "Aarch64">>,
    <<<<"a", "r", "m", "v", "7">>, "Armv7">>,
    <<<<"a", "r", "m">>, "Arm">>,
    <<<<"i", "5", "8", "6">>, "I586">>,
    <<<<"p", "o", "w", "e", "r", "p", "c">>, "Powerpc">>,
    <<<<"p", "o", "w", "e", "r", "p", "c", "6", "4">>, "Powerpc64">>,
    <<<<"p", "o", "w", "e", "r", "p", "c", "6", "4", "l", "e">>, "Powerpc64le">>,
    <<<<"s", "3", "9", "0", "x">>, "S390x">>,
    <<<<"r", "i", "s", "c", "v", "6", "4", "g", "c">>, "Riscv64gc">>,
    <<<<"l", "o", "o", "n", "g", "a", "r", "c", "h", "6", "4">>, "Loongarch64">>,
    <<<<"s", "p", "a", "r", "c", "6", "4">>, "Sparc64">>,
    <<<<"s", "p", "a", "r", "c", "v", "9">>, "Sparcv9">>,
    <<<<"w", "a", "s", "m", "3", "2">>, "Wasm32">>,
    <<<<"u", "n", "k", "n", "o", "w", "n">>, "Unknown">>
    }
\* the table of vendors without Sun
VendorStrings_without_sun ==
    {
    <<<<"a", "p", "p", "l", "e">>, "Apple">>,
    <<<<"p", "c">>, "Pc">>,
    <<<<"u", "n", "k", "n", "o", "w", "n">>, "Unknown">>
    }
VendorStrings ==
    {
    <<<<"a", "p", "p", "l", "e">>, "Apple">>,
    <<<<"p", "c">>, "Pc">>,
    <<<<"s", "u", "n">>, "Sun">>,
    <<<<"u", "n", "k", "n", "o", "w", "n">>, "Unknown">>
    }
\* the table of operating systems without illumos
OsStrings_without_illumos ==
    {
    <<<<"l", "i", "n", "u", "x">>, "Linux">>,
    <<<<"w", "i", "n", "d", "o", "w", "s">>, "Windows">>,
    <<<<"d", "a", "r", "w", "i", "n">>, "Darwin">>,
    <<<<"f", "r", "e", "e", "b", "s", "d">>, "Freebsd">>,
    <<<<"n", "e", "t", "b", "s", "d">>, "Netbsd">>,
    <<<<"i", "o", "s">>, "Ios">>,
    <<<<"w", "a", "t", "c", "h", "o", "s">>, "Watchos">>,
    <<<<"t", "v", "o", "s">>, "Tvos">>,
    <<<<"f", "u", "c", "h", "s", "i", "a">>, "Fuchsia">>,
    <<<<"a", "n", "d", "r", "o", "i", "d">>, "Android">>,
    <<<<"w", "a", "s", "i">>, "Wasi">>,
    <<<<"s", "o", "l", "a", "r", "i", "s">>, "Solaris">>,
    <<<<"u", "n", "k", "n", "o", "w", "n">>, "Unknown">>
    }
OsStrings ==
    {
    <<<<"l", "i", "n", "u", "x">>, "Linux">>,
    <<<<"w", "i", "n", "d", "o", "w", "s">>, "Windows">>,
    <<<<"d", "a", "r", "w", "i", "n">>, "Darwin">>,
    <<<<"f", "r", "e", "e", "b", "s", "d">>, "Freebsd">>,
    <<<<"n", "e", "t", "b", "s", "d">>, "Netbsd">>,
    <<<<"i", "l", "l", "u", "m", "o", "s">>, "Illumos">>,
    <<<<"i", "o", "s">>, "Ios">>,
    <<<<"w", "a", "t", "c", "h", "o", "s">>, "Watchos">>,
    <<<<"t", "v", "o", "s">>, "Tvos">>,
    <<<<"f", "u", "c", "h", "s", "i", "a">>, "Fuchsia">>,
    <<<<"a", "n", "d", "r", "o", "i", "d">>, "Android">>,
    <<<<"w", "a", "s", "i">>, "Wasi">>,
    <<<<"s", "o", "l", "a", "r", "i", "s">>, "Solaris">>,
    <<<<"u", "n", "k", "n", "o", "w", "n">>, "Unknown">>
    }
AbiStrings ==
    {
    <<<<"g", "n", "u">>, "Gnu">>,
    <<<<"g", "n", "u", "e", "a", "b", "i">>, "Gnueabi">>,
    <<<<"g", "n", "u", "e", "a", "b", "i", "h", "f">>, "Gnueabihf">>,
    <<<<"m", "u", "s", "l">>, "Musl">>,
    <<<<"m", "u", "s", "l", "e", "a", "b", "i">>, "Musleabi">>,
    <<<<"m", "u", "s", "l", "e", "a", "b", "i", "h", "f">>, "Musleabihf">>,
    <<<<"m", "s", "v", "c">>, "Msvc">>,
    <<<<"a", "n", "d", "r", "o", "i", "d">>, "Android">>,
    <<<<"u", "n", "k", "n", "o", "w", "n">>, "Unknown">>
    }

\* a variant of a stringish enum; Other carries the string
Variant(name) == [variant |-> name]
Other(s) == [variant |-> "Other", val |-> s]
Unknown == Variant("Unknown")

\* from_str of a stringish enum: the literal table, else Other(s)
from_str(strings, s) ==
    IF \E row \in strings : row[1] = s
    THEN Variant((CHOOSE row \in strings : row[1] = s)[2])
    ELSE Other(s)

\* the place of the first pat in s, 0 if there is none
find(s, pat) ==
    IF \E i \in DOMAIN s : s[i] = pat
    THEN CHOOSE i \in DOMAIN s : s[i] = pat /\ \A j \in 1..(i - 1) : s[j] # pat
    ELSE 0

\* the number of '-' of a string
Dashes(s) == Cardinality({i \in DOMAIN s : s[i] = "-"})

\* str::split(pat): a piece for every pat, however many
RECURSIVE split_every(_, _, _)
split_every(n, pat, s) ==
    IF find(s, pat) = 0 THEN <<s>>
    ELSE <<SubSeq(s, 1, find(s, pat) - 1)>>
            \o split_every(n, pat, SubSeq(s, find(s, pat) + 1, Len(s)))

\* str::splitn(n, pat): at most n pieces, the last one is the rest
RECURSIVE splitn(_, _, _)
splitn(n, pat, s) ==
    IF n = 0 THEN <<>>
    ELSE IF n = 1 \/ find(s, pat) = 0 THEN <<s>>
    ELSE <<SubSeq(s, 1, find(s, pat) - 1)>>
            \o splitn(n - 1, pat, SubSeq(s, find(s, pat) + 1, Len(s)))

TargetTripleParsed(arch, vendor, os, abi, original) ==
    [arch |-> arch, vendor |-> vendor, os |-> os, abi |-> abi, original |-> original]

\* a lone component read as the architecture
any_other_shape_as_arch(value) ==
    TargetTripleParsed(from_str(ArchStrings, value), Unknown, Unknown, Unknown, value)

\* the `_ =>` arm of the match
any_other_shape(value) ==
    TargetTripleParsed(Unknown, Unknown, Unknown, Unknown, value)

LINUX == <<"l", "i", "n", "u", "x">>

\* two components read as vendor and os
two_tokens_as_vendor_os(value, tokens) ==
    TargetTripleParsed(Unknown, from_str(VendorStrings, tokens[1]),
                       from_str(OsStrings, tokens[2]), Unknown, value)

\* the `[arch, os]` arm
two_tokens(value, tokens) ==
    TargetTripleParsed(from_str(ArchStrings, tokens[1]), Unknown,
                       from_str(OsStrings, tokens[2]), Unknown, value)

\* three components read as arch, vendor and os whatever the second is
three_tokens_with_vendor(value, tokens) ==
    TargetTripleParsed(from_str(ArchStrings, tokens[1]),
                       from_str(VendorStrings, tokens[2]),
                       from_str(OsStrings, tokens[3]), Unknown, value)

\* the `[a, b, c]` arm
three_tokens(value, tokens) ==
    IF tokens[2] = LINUX
    THEN TargetTripleParsed(from_str(ArchStrings, tokens[1]), Unknown,
                            from_str(OsStrings, tokens[2]),
                            from_str(AbiStrings, tokens[3]), value)
    ELSE TargetTripleParsed(from_str(ArchStrings, tokens[1]),
                            from_str(VendorStrings, tokens[2]),
                            from_str(OsStrings, tokens[3]), Unknown, value)

\* the `[a, b, c, d]` arm
four_tokens(value, tokens) ==
    TargetTripleParsed(from_str(ArchStrings, tokens[1]),
                       from_str(VendorStrings, tokens[2]),
                       from_str(OsStrings, tokens[3]),
                       from_str(AbiStrings, tokens[4]), value)

\* impl From<TargetTriple> for TargetTripleParsed
from(value) ==
    LET tokens == splitn(4, "-", value)
    IN  CASE Len(tokens) = 2 -> two_tokens(value, tokens)
          [] Len(tokens) = 3 -> three_tokens(value, tokens)
          [] Len(tokens) = 4 -> four_tokens(value, tokens)
          [] OTHER -> any_other_shape(value)

\* bit_width without the arm for Wasm32
bit_width_without_wasm32(arch) ==
    CASE arch.variant \in {"I586", "I686", "Armv7", "Arm", "Powerpc"} -> Some(32)
      [] arch.variant \in {"X86_64", "Aarch64", "Powerpc64", "Powerpc64le", "S390x",
                           "Riscv64gc", "Loongarch64", "Sparc64", "Sparcv9"} -> Some(64)
      [] OTHER -> None

\* Arch::bit_width
bit_width(arch) ==
    CASE arch.variant \in {"I586", "I686", "Armv7", "Arm", "Powerpc", "Wasm32"} -> Some(32)
      [] arch.variant \in {"X86_64", "Aarch64", "Powerpc64", "Powerpc64le", "S390x",
                           "Riscv64gc", "Loongarch64", "Sparc64", "Sparcv9"} -> Some(64)
      [] OTHER -> None

\* Arch::endianness
endianness(arch) ==
    CASE arch.variant \in {"I586", "I686", "X86_64", "Aarch64", "Armv7", "Arm", "Powerpc64le",
                           "Riscv64gc", "Loongarch64", "Wasm32"} -> Some("Little")
      [] arch.variant \in {"Powerpc", "Powerpc64", "S390x", "Sparc64", "Sparcv9"} -> Some("Big")
      [] OTHER -> None

\* impl TargetTripleParsed
is_64bit(self) == IF bit_width(self.arch).some THEN bit_width(self.arch).val = 64 ELSE FALSE
is_32bit(self) == IF bit_width(self.arch).some THEN bit_width(self.arch).val = 32 ELSE FALSE
\* the triple's text searched for the system's name
is_windows_by_name(self) == contains(self.original, WINDOWS)
is_windows(self) == self.os = Variant("Windows")
is_mac(self) == self.os = Variant("Darwin")
\* any triple with "linux" in second place
is_linux_with_vendor_only(self) == self.os = Variant("Linux") /\ self.vendor # Unknown
is_linux(self) == self.os = Variant("Linux")
is_gnu(self) == self.abi \in {Variant("Gnu"), Variant("Gnueabi"), Variant("Gnueabihf")}
is_musl(self) == self.abi \in {Variant("Musl"), Variant("Musleabi"), Variant("Musleabihf")}
is_msvc(self) == self.abi = Variant("Msvc")
is_ios(self) == self.os = Variant("Ios")
is_android(self) == self.os = Variant("Android")
is_wasm(self) == self.arch = Variant("Wasm32")
is_bsd(self) == self.os \in {Variant("Freebsd"), Variant("Netbsd")}
is_big_endian(self) ==
    IF endianness(self.arch).some THEN endianness(self.arch).val = "Big" ELSE FALSE
is_little_endian(self) ==
    IF endianness(self.arch).some THEN endianness(self.arch).val = "Little" ELSE FALSE

\* every predicate of a parsed triple
predicates(self) ==
    [is_64bit |-> is_64bit(self), is_32bit |-> is_32bit(self),
     is_windows |-> is_windows(self), is_mac |-> is_mac(self), is_linux |-> is_linux(self),
     is_gnu |-> is_gnu(self), is_musl |-> is_musl(self), is_msvc |-> is_msvc(self),
     is_ios |-> is_ios(self), is_android |-> is_android(self), is_wasm |-> is_wasm(self),
     is_bsd |-> is_bsd(self), is_big_endian |-> is_big_endian(self),
     is_little_endian |-> is_little_endian(self)]

\* the recognized targets
KNOWN_WINDOWS_TARGETS ==
    {
    <<"i", "6", "8", "6", "-", "p", "c", "-", "w", "i", "n", "d", "o", "w", "s", "-", "m", "s", "v", "c">>,
    <<"x", "8", "6", "_", "6", "4", "-", "p", "c", "-", "w", "i", "n", "d", "o", "w", "s", "-", "m", "s", "v", "c">>,
    <<"a", "a", "r", "c", "h", "6", "4", "-", "p", "c", "-", "w", "i", "n", "d", "o", "w", "s", "-", "m", "s", "v", "c">>,
    <<"i", "6", "8", "6", "-", "p", "c", "-", "w", "i", "n", "d", "o", "w", "s", "-", "g", "n", "u">>,
    <<"x", "8", "6", "_", "6", "4", "-", "p", "c", "-", "w", "i", "n", "d", "o", "w", "s", "-", "g", "n", "u">>,
    <<"a", "a", "r", "c", "h", "6", "4", "-", "p", "c", "-", "w", "i", "n", "d", "o", "w", "s", "-", "g", "n", "u">>
    }
KNOWN_MAC_TARGETS ==
    {
    <<"i", "6", "8", "6", "-", "a", "p", "p", "l", "e", "-", "d", "a", "r", "w", "i", "n">>,
    <<"x", "8", "6", "_", "6", "4", "-", "a", "p", "p", "l", "e", "-", "d", "a", "r", "w", "i", "n">>,
    <<"a", "a", "r", "c", "h", "6", "4", "-", "a", "p", "p", "l", "e", "-", "d", "a", "r", "w", "i", "n">>
    }
KNOWN_LINUX_GNU_TARGETS ==
    {
    <<"i", "6", "8", "6", "-", "u", "n", "k", "n", "o", "w", "n", "-", "l", "i", "n", "u", "x", "-", "g", "n", "u">>,
    <<"x", "8", "6", "_", "6", "4", "-", "u", "n", "k", "n", "o", "w", "n", "-", "l", "i", "n", "u", "x", "-", "g", "n", "u">>,
    <<"a", "a", "r", "c", "h", "6", "4", "-", "u", "n", "k", "n", "o", "w", "n", "-", "l", "i", "n", "u", "x", "-", "g", "n", "u">>,
    <<"a", "r", "m", "v", "7", "-", "u", "n", "k", "n", "o", "w", "n", "-", "l", "i", "n", "u", "x", "-", "g", "n", "u", "e", "a", "b", "i", "h", "f">>,
    <<"a", "r", "m", "-", "u", "n", "k", "n", "o", "w", "n", "-", "l", "i", "n", "u", "x", "-", "g", "n", "u", "e", "a", "b", "i">>,
    <<"a", "r", "m", "-", "u", "n", "k", "n", "o", "w", "n", "-", "l", "i", "n", "u", "x", "-", "g", "n", "u", "e", "a", "b", "i", "h", "f">>,
    <<"p", "o", "w", "e", "r", "p", "c", "6", "4", "-", "u", "n", "k", "n", "o", "w", "n", "-", "l", "i", "n", "u", "x", "-", "g", "n", "u">>,
    <<"p", "o", "w", "e", "r", "p", "c", "6", "4", "l", "e", "-", "u", "n", "k", "n", "o", "w", "n", "-", "l", "i", "n", "u", "x", "-", "g", "n", "u">>,
    <<"s", "3", "9", "0", "x", "-", "u", "n", "k", "n", "o", "w", "n", "-", "l", "i", "n", "u", "x", "-", "g", "n", "u">>,
    <<"r", "i", "s", "c", "v", "6", "4", "g", "c", "-", "u", "n", "k", "n", "o", "w", "n", "-", "l", "i", "n", "u", "x", "-", "g", "n", "u">>,
    <<"l", "o", "o", "n", "g", "a", "r", "c", "h", "6", "4", "-", "u", "n", "k", "n", "o", "w", "n", "-", "l", "i", "n", "u", "x", "-", "g", "n", "u">>,
    <<"s", "p", "a", "r", "c", "6", "4", "-", "u", "n", "k", "n", "o", "w", "n", "-", "l", "i", "n", "u", "x", "-", "g", "n", "u">>
    }
KNOWN_LINUX_MUSL_TARGETS ==
    {
    <<"i", "6", "8", "6", "-", "u", "n", "k", "n", "o", "w", "n", "-", "l", "i", "n", "u", "x", "-", "m", "u", "s", "l">>,
    <<"x", "8", "6", "_", "6", "4", "-", "u", "n", "k", "n", "o", "w", "n", "-", "l", "i", "n", "u", "x", "-", "m", "u", "s", "l">>,
    <<"a", "a", "r", "c", "h", "6", "4", "-", "u", "n", "k", "n", "o", "w", "n", "-", "l", "i", "n", "u", "x", "-", "m", "u", "s", "l">>,
    <<"a", "r", "m", "v", "7", "-", "u", "n", "k", "n", "o", "w", "n", "-", "l", "i", "n", "u", "x", "-", "m", "u", "s", "l", "e", "a", "b", "i", "h", "f">>,
    <<"a", "r", "m", "-", "u", "n", "k", "n", "o", "w", "n", "-", "l", "i", "n", "u", "x", "-", "m", "u", "s", "l", "e", "a", "b", "i">>,
    <<"a", "r", "m", "-", "u", "n", "k", "n", "o", "w", "n", "-", "l", "i", "n", "u", "x", "-", "m", "u", "s", "l", "e", "a", "b", "i", "h", "f">>,
    <<"p", "o", "w", "e", "r", "p", "c", "6", "4", "-", "u", "n", "k", "n", "o", "w", "n", "-", "l", "i", "n", "u", "x", "-", "m", "u", "s", "l">>,
    <<"p", "o", "w", "e", "r", "p", "c", "6", "4", "l", "e", "-", "u", "n", "k", "n", "o", "w", "n", "-", "l", "i", "n", "u", "x", "-", "m", "u", "s", "l">>,
    <<"s", "3", "9", "0", "x", "-", "u", "n", "k", "n", "o", "w", "n", "-", "l", "i", "n", "u", "x", "-", "m", "u", "s", "l">>,
    <<"r", "i", "s", "c", "v", "6", "4", "g", "c", "-", "u", "n", "k", "n", "o", "w", "n", "-", "l", "i", "n", "u", "x", "-", "m", "u", "s", "l">>,
    <<"l", "o", "o", "n", "g", "a", "r", "c", "h", "6", "4", "-", "u", "n", "k", "n", "o", "w", "n", "-", "l", "i", "n", "u", "x", "-", "m", "u", "s", "l">>,
    <<"s", "p", "a", "r", "c", "6", "4", "-", "u", "n", "k", "n", "o", "w", "n", "-", "l", "i", "n", "u", "x", "-", "m", "u", "s", "l">>
    }
KNOWN_OTHER_TARGETS ==
    {
    <<"x", "8", "6", "_", "6", "4", "-", "u", "n", "k", "n", "o", "w", "n", "-", "f", "r", "e", "e", "b", "s", "d">>,
    <<"x", "8", "6", "_", "6", "4", "-", "u", "n", "k", "n", "o", "w", "n", "-", "i", "l", "l", "u", "m", "o", "s">>,
    <<"x", "8", "6", "_", "6", "4", "-", "u", "n", "k", "n", "o", "w", "n", "-", "n", "e", "t", "b", "s", "d">>,
    <<"a", "a", "r", "c", "h", "6", "4", "-", "a", "p", "p", "l", "e", "-", "i", "o", "s">>,
    <<"a", "a", "r", "c", "h", "6", "4", "-", "u", "n", "k", "n", "o", "w", "n", "-", "f", "u", "c", "h", "s", "i", "a">>,
    <<"a", "a", "r", "c", "h", "6", "4", "-", "l", "i", "n", "u", "x", "-", "a", "n", "d", "r", "o", "i", "d">>,
    <<"x", "8", "6", "_", "6", "4", "-", "l", "i", "n", "u", "x", "-", "a", "n", "d", "r", "o", "i", "d">>,
    <<"w", "a", "s", "m", "3", "2", "-", "w", "a", "s", "i">>,
    <<"w", "a", "s", "m", "3", "2", "-", "u", "n", "k", "n", "o", "w", "n", "-", "u", "n", "k", "n", "o", "w", "n">>,
    <<"s", "p", "a", "r", "c", "v", "9", "-", "s", "u", "n", "-", "s", "o", "l", "a", "r", "i", "s">>,
    <<"x", "8", "6", "_", "6", "4", "-", "p", "c", "-", "s", "o", "l", "a", "r", "i", "s">>
    }
KNOWN_TARGET_TRIPLES ==
    KNOWN_WINDOWS_TARGETS \cup KNOWN_MAC_TARGETS \cup KNOWN_LINUX_GNU_TARGETS
        \cup KNOWN_LINUX_MUSL_TARGETS \cup KNOWN_OTHER_TARGETS

\* the TARGET_* constants of define_target_triples!, each with the list
\* that follows its block
define_target_triples ==
    {
    [list |-> "KNOWN_WINDOWS_TARGETS", name |-> "TARGET_X86_WINDOWS",
     triple |-> <<"i", "6", "8", "6", "-", "p", "c", "-", "w", "i", "n", "d", "o", "w", "s", "-", "m", "s", "v", "c">>],
    [list |-> "KNOWN_WINDOWS_TARGETS", name |-> "TARGET_X64_WINDOWS",
     triple |-> <<"x", "8", "6", "_", "6", "4", "-", "p", "c", "-", "w", "i", "n", "d", "o", "w", "s", "-", "m", "s", "v", "c">>],
    [list |-> "KNOWN_WINDOWS_TARGETS", name |-> "TARGET_ARM64_WINDOWS",
     triple |-> <<"a", "a", "r", "c", "h", "6", "4", "-", "p", "c", "-", "w", "i", "n", "d", "o", "w", "s", "-", "m", "s", "v", "c">>],
    [list |-> "KNOWN_WINDOWS_TARGETS", name |-> "TARGET_X86_MINGW",
     triple |-> <<"i", "6", "8", "6", "-", "p", "c", "-", "w", "i", "n", "d", "o", "w", "s", "-", "g", "n", "u">>],
    [list |-> "KNOWN_WINDOWS_TARGETS", name |-> "TARGET_X64_MINGW",
     triple |-> <<"x", "8", "6", "_", "6", "4", "-", "p", "c", "-", "w", "i", "n", "d", "o", "w", "s", "-", "g", "n", "u">>],
    [list |-> "KNOWN_WINDOWS_TARGETS", name |-> "TARGET_ARM64_MINGW",
     triple |-> <<"a", "a", "r", "c", "h", "6", "4", "-", "p", "c", "-", "w", "i", "n", "d", "o", "w", "s", "-", "g", "n", "u">>],
    [list |-> "KNOWN_MAC_TARGETS", name |-> "TARGET_X86_MAC",
     triple |-> <<"i", "6", "8", "6", "-", "a", "p", "p", "l", "e", "-", "d", "a", "r", "w", "i", "n">>],
    [list |-> "KNOWN_MAC_TARGETS", name |-> "TARGET_X64_MAC",
     triple |-> <<"x", "8", "6", "_", "6", "4", "-", "a", "p", "p", "l", "e", "-", "d", "a", "r", "w", "i", "n">>],
    [list |-> "KNOWN_MAC_TARGETS", name |-> "TARGET_ARM64_MAC",
     triple |-> <<"a", "a", "r", "c", "h", "6", "4", "-", "a", "p", "p", "l", "e", "-", "d", "a", "r", "w", "i", "n">>],
    [list |-> "KNOWN_LINUX_GNU_TARGETS", name |-> "TARGET_X86_LINUX_GNU",
     triple |-> <<"i", "6", "8", "6", "-", "u", "n", "k", "n", "o", "w", "n", "-", "l", "i", "n", "u", "x", "-", "g", "n", "u">>],
    [list |-> "KNOWN_LINUX_GNU_TARGETS", name |-> "TARGET_X64_LINUX_GNU",
     triple |-> <<"x", "8", "6", "_", "6", "4", "-", "u", "n", "k", "n", "o", "w", "n", "-", "l", "i", "n", "u", "x", "-", "g", "n", "u">>],
    [list |-> "KNOWN_LINUX_GNU_TARGETS", name |-> "TARGET_ARM64_LINUX_GNU",
     triple |-> <<"a", "a", "r", "c", "h", "6", "4", "-", "u", "n", "k", "n", "o", "w", "n", "-", "l", "i", "n", "u", "x", "-", "g", "n", "u">>],
    [list |-> "KNOWN_LINUX_GNU_TARGETS", name |-> "TARGET_ARMV7_LINUX_GNU",
     triple |-> <<"a", "r", "m", "v", "7", "-", "u", "n", "k", "n", "o", "w", "n", "-", "l", "i", "n", "u", "x", "-", "g", "n", "u", "e", "a", "b", "i", "h", "f">>],
    [list |-> "KNOWN_LINUX_GNU_TARGETS", name |-> "TARGET_ARMV6_LINUX_GNU",
     triple |-> <<"a", "r", "m", "-", "u", "n", "k", "n", "o", "w", "n", "-", "l", "i", "n", "u", "x", "-", "g", "n", "u", "e", "a", "b", "i">>],
    [list |-> "KNOWN_LINUX_GNU_TARGETS", name |-> "TARGET_ARMV6_LINUX_GNU_HARDFLOAT",
     triple |-> <<"a", "r", "m", "-", "u", "n", "k", "n", "o", "w", "n", "-", "l", "i", "n", "u", "x", "-", "g", "n", "u", "e", "a", "b", "i", "h", "f">>],
    [list |-> "KNOWN_LINUX_GNU_TARGETS", name |-> "TARGET_PPC_LINUX_GNU",
     triple |-> <<"p", "o", "w", "e", "r", "p", "c", "-", "u", "n", "k", "n", "o", "w", "n", "-", "l", "i", "n", "u", "x", "-", "g", "n", "u">>],
    [list |-> "KNOWN_LINUX_GNU_TARGETS", name |-> "TARGET_PPC64_LINUX_GNU",
     triple |-> <<"p", "o", "w", "e", "r", "p", "c", "6", "4", "-", "u", "n", "k", "n", "o", "w", "n", "-", "l", "i", "n", "u", "x", "-", "g", "n", "u">>],
    [list |-> "KNOWN_LINUX_GNU_TARGETS", name |-> "TARGET_PPC64LE_LINUX_GNU",
     triple |-> <<"p", "o", "w", "e", "r", "p", "c", "6", "4", "l", "e", "-", "u", "n", "k", "n", "o", "w", "n", "-", "l", "i", "n", "u", "x", "-", "g", "n", "u">>],
    [list |-> "KNOWN_LINUX_GNU_TARGETS", name |-> "TARGET_S390X_LINUX_GNU",
     triple |-> <<"s", "3", "9", "0", "x", "-", "u", "n", "k", "n", "o", "w", "n", "-", "l", "i", "n", "u", "x", "-", "g", "n", "u">>],
    [list |-> "KNOWN_LINUX_GNU_TARGETS", name |-> "TARGET_RISCV_LINUX_GNU",
     triple |-> <<"r", "i", "s", "c", "v", "6", "4", "g", "c", "-", "u", "n", "k", "n", "o", "w", "n", "-", "l", "i", "n", "u", "x", "-", "g", "n", "u">>],
    [list |-> "KNOWN_LINUX_GNU_TARGETS", name |-> "TARGET_LOONGARCH64_LINUX_GNU",
     triple |-> <<"l", "o", "o", "n", "g", "a", "r", "c", "h", "6", "4", "-", "u", "n", "k", "n", "o", "w", "n", "-", "l", "i", "n", "u", "x", "-", "g", "n", "u">>],
    [list |-> "KNOWN_LINUX_GNU_TARGETS", name |-> "TARGET_SPARC64_LINUX_GNU",
     triple |-> <<"s", "p", "a", "r", "c", "6", "4", "-", "u", "n", "k", "n", "o", "w", "n", "-", "l", "i", "n", "u", "x", "-", "g", "n", "u">>],
    [list |-> "KNOWN_LINUX_MUSL_TARGETS", name |-> "TARGET_X86_LINUX_MUSL",
     triple |-> <<"i", "6", "8", "6", "-", "u", "n", "k", "n", "o", "w", "n", "-", "l", "i", "n", "u", "x", "-", "m", "u", "s", "l">>],
    [list |-> "KNOWN_LINUX_MUSL_TARGETS", name |-> "TARGET_X64_LINUX_MUSL",
     triple |-> <<"x", "8", "6", "_", "6", "4", "-", "u", "n", "k", "n", "o", "w", "n", "-", "l", "i", "n", "u", "x", "-", "m", "u", "s", "l">>],
    [list |-> "KNOWN_LINUX_MUSL_TARGETS", name |-> "TARGET_ARM64_LINUX_MUSL",
     triple |-> <<"a", "a", "r", "c", "h", "6", "4", "-", "u", "n", "k", "n", "o", "w", "n", "-", "l", "i", "n", "u", "x", "-", "m", "u", "s", "l">>],
    [list |-> "KNOWN_LINUX_MUSL_TARGETS", name |-> "TARGET_ARMV7_LINUX_MUSL",
     triple |-> <<"a", "r", "m", "v", "7", "-", "u", "n", "k", "n", "o", "w", "n", "-", "l", "i", "n", "u", "x", "-", "m", "u", "s", "l", "e", "a", "b", "i", "h", "f">>],
    [list |-> "KNOWN_LINUX_MUSL_TARGETS", name |-> "TARGET_ARMV6_LINUX_MUSL",
     triple |-> <<"a", "r", "m", "-", "u", "n", "k", "n", "o", "w", "n", "-", "l", "i", "n", "u", "x", "-", "m", "u", "s", "l", "e", "a", "b", "i">>],
    [list |-> "KNOWN_LINUX_MUSL_TARGETS", name |-> "TARGET_ARMV6_LINUX_MUSL_HARDFLOAT",
     triple |-> <<"a", "r", "m", "-", "u", "n", "k", "n", "o", "w", "n", "-", "l", "i", "n", "u", "x", "-", "m", "u", "s", "l", "e", "a", "b", "i", "h", "f">>],
    [list |-> "KNOWN_LINUX_MUSL_TARGETS", name |-> "TARGET_PPC_LINUX_MUSL",
     triple |-> <<"p", "o", "w", "e", "r", "p", "c", "-", "u", "n", "k", "n", "o", "w", "n", "-", "l", "i", "n", "u", "x", "-", "m", "u", "s", "l">>],
    [list |-> "KNOWN_LINUX_MUSL_TARGETS", name |-> "TARGET_PPC64_LINUX_MUSL",
     triple |-> <<"p", "o", "w", "e", "r", "p", "c", "6", "4", "-", "u", "n", "k", "n", "o", "w", "n", "-", "l", "i", "n", "u", "x", "-", "m", "u", "s", "l">>],
    [list |-> "KNOWN_LINUX_MUSL_TARGETS", name |-> "TARGET_PPC64LE_LINUX_MUSL",
     triple |-> <<"p", "o", "w", "e", "r", "p", "c", "6", "4", "l", "e", "-", "u", "n", "k", "n", "o", "w", "n", "-", "l", "i", "n", "u", "x", "-", "m", "u", "s", "l">>],
    [list |-> "KNOWN_LINUX_MUSL_TARGETS", name |-> "TARGET_S390X_LINUX_MUSL",
     triple |-> <<"s", "3", "9", "0", "x", "-", "u", "n", "k", "n", "o", "w", "n", "-", "l", "i", "n", "u", "x", "-", "m", "u", "s", "l">>],
    [list |-> "KNOWN_LINUX_MUSL_TARGETS", name |-> "TARGET_RISCV_LINUX_MUSL",
     triple |-> <<"r", "i", "s", "c", "v", "6", "4", "g", "c", "-", "u", "n", "k", "n", "o", "w", "n", "-", "l", "i", "n", "u", "x", "-", "m", "u", "s", "l">>],
    [list |-> "KNOWN_LINUX_MUSL_TARGETS", name |-> "TARGET_LOONGARCH64_LINUX_MUSL",
     triple |-> <<"l", "o", "o", "n", "g", "a", "r", "c", "h", "6", "4", "-", "u", "n", "k", "n", "o", "w", "n", "-", "l", "i", "n", "u", "x", "-", "m", "u", "s", "l">>],
    [list |-> "KNOWN_LINUX_MUSL_TARGETS", name |-> "TARGET_SPARC64_LINUX_MUSL",
     triple |-> <<"s", "p", "a", "r", "c", "6", "4", "-", "u", "n", "k", "n", "o", "w", "n", "-", "l", "i", "n", "u", "x", "-", "m", "u", "s", "l">>],
    [list |-> "KNOWN_OTHER_TARGETS", name |-> "TARGET_X64_FREEBSD",
     triple |-> <<"x", "8", "6", "_", "6", "4", "-", "u", "n", "k", "n", "o", "w", "n", "-", "f", "r", "e", "e", "b", "s", "d">>],
    [list |-> "KNOWN_OTHER_TARGETS", name |-> "TARGET_X64_ILLUMOS",
     triple |-> <<"x", "8", "6", "_", "6", "4", "-", "u", "n", "k", "n", "o", "w", "n", "-", "i", "l", "l", "u", "m", "o", "s">>],
    [list |-> "KNOWN_OTHER_TARGETS", name |-> "TARGET_X64_NETBSD",
     triple |-> <<"x", "8", "6", "_", "6", "4", "-", "u", "n", "k", "n", "o", "w", "n", "-", "n", "e", "t", "b", "s", "d">>],
    [list |-> "KNOWN_OTHER_TARGETS", name |-> "TARGET_ARM64_IOS",
     triple |-> <<"a", "a", "r", "c", "h", "6", "4", "-", "a", "p", "p", "l", "e", "-", "i", "o", "s">>],
    [list |-> "KNOWN_OTHER_TARGETS", name |-> "TARGET_ARM64_FUCHSIA",
     triple |-> <<"a", "a", "r", "c", "h", "6", "4", "-", "u", "n", "k", "n", "o", "w", "n", "-", "f", "u", "c", "h", "s", "i", "a">>],
    [list |-> "KNOWN_OTHER_TARGETS", name |-> "TARGET_ARM64_ANDROID",
     triple |-> <<"a", "a", "r", "c", "h", "6", "4", "-", "l", "i", "n", "u", "x", "-", "a", "n", "d", "r", "o", "i", "d">>],
    [list |-> "KNOWN_OTHER_TARGETS", name |-> "TARGET_X64_ANDROID",
     triple |-> <<"x", "8", "6", "_", "6", "4", "-", "l", "i", "n", "u", "x", "-", "a", "n", "d", "r", "o", "i", "d">>],
    [list |-> "KNOWN_OTHER_TARGETS", name |-> "TARGET_WASM32_WASI",
     triple |-> <<"w", "a", "s", "m", "3", "2", "-", "w", "a", "s", "i">>],
    [list |-> "KNOWN_OTHER_TARGETS", name |-> "TARGET_WASM32",
     triple |-> <<"w", "a", "s", "m", "3", "2", "-", "u", "n", "k", "n", "o", "w", "n", "-", "u", "n", "k", "n", "o", "w", "n">>],
    [list |-> "KNOWN_OTHER_TARGETS", name |-> "TARGET_SPARC_SOLARIS",
     triple |-> <<"s", "p", "a", "r", "c", "v", "9", "-", "s", "u", "n", "-", "s", "o", "l", "a", "r", "i", "s">>],
    [list |-> "KNOWN_OTHER_TARGETS", name |-> "TARGET_X64_SOLARIS",
     triple |-> <<"x", "8", "6", "_", "6", "4", "-", "p", "c", "-", "s", "o", "l", "a", "r", "i", "s">>]
    }

\* test_target_triple_parsing: the triples and the variants asserted of them
assert_target ==
    {
    [triple |-> <<"a", "a", "r", "c", "h", "6", "4", "-", "u", "n", "k", "n", "o", "w", "n", "-", "l", "i", "n", "u", "x", "-", "g", "n", "u">>,
     arch |-> "Aarch64", vendor |-> "Unknown", os |-> "Linux", abi |-> "Gnu"],
    [triple |-> <<"a", "a", "r", "c", "h", "6", "4", "-", "a", "p", "p", "l", "e", "-", "d", "a", "r", "w", "i", "n">>,
     arch |-> "Aarch64", vendor |-> "Apple", os |-> "Darwin", abi |-> "Unknown"],
    [triple |-> <<"i", "6", "8", "6", "-", "p", "c", "-", "w", "i", "n", "d", "o", "w", "s", "-", "g", "n", "u">>,
     arch |-> "I686", vendor |-> "Pc", os |-> "Windows", abi |-> "Gnu"],
    [triple |-> <<"i", "6", "8", "6", "-", "p", "c", "-", "w", "i", "n", "d", "o", "w", "s", "-", "m", "s", "v", "c">>,
     arch |-> "I686", vendor |-> "Pc", os |-> "Windows", abi |-> "Msvc"],
    [triple |-> <<"i", "6", "8", "6", "-", "u", "n", "k", "n", "o", "w", "n", "-", "l", "i", "n", "u", "x", "-", "g", "n", "u">>,
     arch |-> "I686", vendor |-> "Unknown", os |-> "Linux", abi |-> "Gnu"],
    [triple |-> <<"x", "8", "6", "_", "6", "4", "-", "a", "p", "p", "l", "e", "-", "d", "a", "r", "w", "i", "n">>,
     arch |-> "X86_64", vendor |-> "Apple", os |-> "Darwin", abi |-> "Unknown"],
    [triple |-> <<"x", "8", "6", "_", "6", "4", "-", "p", "c", "-", "w", "i", "n", "d", "o", "w", "s", "-", "g", "n", "u">>,
     arch |-> "X86_64", vendor |-> "Pc", os |-> "Windows", abi |-> "Gnu"],
    [triple |-> <<"x", "8", "6", "_", "6", "4", "-", "p", "c", "-", "w", "i", "n", "d", "o", "w", "s", "-", "m", "s", "v", "c">>,
     arch |-> "X86_64", vendor |-> "Pc", os |-> "Windows", abi |-> "Msvc"],
    [triple |-> <<"x", "8", "6", "_", "6", "4", "-", "u", "n", "k", "n", "o", "w", "n", "-", "l", "i", "n", "u", "x", "-", "g", "n", "u">>,
     arch |-> "X86_64", vendor |-> "Unknown", os |-> "Linux", abi |-> "Gnu"],
    [triple |-> <<"a", "a", "r", "c", "h", "6", "4", "-", "p", "c", "-", "w", "i", "n", "d", "o", "w", "s", "-", "m", "s", "v", "c">>,
     arch |-> "Aarch64", vendor |-> "Pc", os |-> "Windows", abi |-> "Msvc"],
    [triple |-> <<"a", "a", "r", "c", "h", "6", "4", "-", "u", "n", "k", "n", "o", "w", "n", "-", "l", "i", "n", "u", "x", "-", "m", "u", "s", "l">>,
     arch |-> "Aarch64", vendor |-> "Unknown", os |-> "Linux", abi |-> "Musl"],
    [triple |-> <<"a", "r", "m", "-", "u", "n", "k", "n", "o", "w", "n", "-", "l", "i", "n", "u", "x", "-", "g", "n", "u", "e", "a", "b", "i">>,
     arch |-> "Arm", vendor |-> "Unknown", os |-> "Linux", abi |-> "Gnueabi"],
    [triple |-> <<"a", "r", "m", "-", "u", "n", "k", "n", "o", "w", "n", "-", "l", "i", "n", "u", "x", "-", "g", "n", "u", "e", "a", "b", "i", "h", "f">>,
     arch |-> "Arm", vendor |-> "Unknown", os |-> "Linux", abi |-> "Gnueabihf"],
    [triple |-> <<"a", "r", "m", "v", "7", "-", "u", "n", "k", "n", "o", "w", "n", "-", "l", "i", "n", "u", "x", "-", "g", "n", "u", "e", "a", "b", "i", "h", "f">>,
     arch |-> "Armv7", vendor |-> "Unknown", os |-> "Linux", abi |-> "Gnueabihf"],
    [triple |-> <<"l", "o", "o", "n", "g", "a", "r", "c", "h", "6", "4", "-", "u", "n", "k", "n", "o", "w", "n", "-", "l", "i", "n", "u", "x", "-", "g", "n", "u">>,
     arch |-> "Loongarch64", vendor |-> "Unknown", os |-> "Linux", abi |-> "Gnu"],
    [triple |-> <<"l", "o", "o", "n", "g", "a", "r", "c", "h", "6", "4", "-", "u", "n", "k", "n", "o", "w", "n", "-", "l", "i", "n", "u", "x", "-", "m", "u", "s", "l">>,
     arch |-> "Loongarch64", vendor |-> "Unknown", os |-> "Linux", abi |-> "Musl"],
    [triple |-> <<"p", "o", "w", "e", "r", "p", "c", "-", "u", "n", "k", "n", "o", "w", "n", "-", "l", "i", "n", "u", "x", "-", "g", "n", "u">>,
     arch |-> "Powerpc", vendor |-> "Unknown", os |-> "Linux", abi |-> "Gnu"],
    [triple |-> <<"p", "o", "w", "e", "r", "p", "c", "6", "4", "-", "u", "n", "k", "n", "o", "w", "n", "-", "l", "i", "n", "u", "x", "-", "g", "n", "u">>,
     arch |-> "Powerpc64", vendor |-> "Unknown", os |-> "Linux", abi |-> "Gnu"],
    [triple |-> <<"p", "o", "w", "e", "r", "p", "c", "6", "4", "l", "e", "-", "u", "n", "k", "n", "o", "w", "n", "-", "l", "i", "n", "u", "x", "-", "g", "n", "u">>,
     arch |-> "Powerpc64le", vendor |-> "Unknown", os |-> "Linux", abi |-> "Gnu"],
    [triple |-> <<"r", "i", "s", "c", "v", "6", "4", "g", "c", "-", "u", "n", "k", "n", "o", "w", "n", "-", "l", "i", "n", "u", "x", "-", "g", "n", "u">>,
     arch |-> "Riscv64gc", vendor |-> "Unknown", os |-> "Linux", abi |-> "Gnu"],
    [triple |-> <<"r", "i", "s", "c", "v", "6", "4", "g", "c", "-", "u", "n", "k", "n", "o", "w", "n", "-", "l", "i", "n", "u", "x", "-", "m", "u", "s", "l">>,
     arch |-> "Riscv64gc", vendor |-> "Unknown", os |-> "Linux", abi |-> "Musl"],
    [triple |-> <<"s", "3", "9", "0", "x", "-", "u", "n", "k", "n", "o", "w", "n", "-", "l", "i", "n", "u", "x", "-", "g", "n", "u">>,
     arch |-> "S390x", vendor |-> "Unknown", os |-> "Linux", abi |-> "Gnu"],
    [triple |-> <<"x", "8", "6", "_", "6", "4", "-", "u", "n", "k", "n", "o", "w", "n", "-", "f", "r", "e", "e", "b", "s", "d">>,
     arch |-> "X86_64", vendor |-> "Unknown", os |-> "Freebsd", abi |-> "Unknown"],
    [triple |-> <<"x", "8", "6", "_", "6", "4", "-", "u", "n", "k", "n", "o", "w", "n", "-", "i", "l", "l", "u", "m", "o", "s">>,
     arch |-> "X86_64", vendor |-> "Unknown", os |-> "Illumos", abi |-> "Unknown"],
    [triple |-> <<"x", "8", "6", "_", "6", "4", "-", "u", "n", "k", "n", "o", "w", "n", "-", "l", "i", "n", "u", "x", "-", "m", "u", "s", "l">>,
     arch |-> "X86_64", vendor |-> "Unknown", os |-> "Linux", abi |-> "Musl"],
    [triple |-> <<"x", "8", "6", "_", "6", "4", "-", "u", "n", "k", "n", "o", "w", "n", "-", "n", "e", "t", "b", "s", "d">>,
     arch |-> "X86_64", vendor |-> "Unknown", os |-> "Netbsd", abi |-> "Unknown"],
    [triple |-> <<"a", "a", "r", "c", "h", "6", "4", "-", "a", "p", "p", "l", "e", "-", "i", "o", "s">>,
     arch |-> "Aarch64", vendor |-> "Apple", os |-> "Ios", abi |-> "Unknown"],
    [triple |-> <<"a", "a", "r", "c", "h", "6", "4", "-", "u", "n", "k", "n", "o", "w", "n", "-", "f", "u", "c", "h", "s", "i", "a">>,
     arch |-> "Aarch64", vendor |-> "Unknown", os |-> "Fuchsia", abi |-> "Unknown"],
    [triple |-> <<"a", "a", "r", "c", "h", "6", "4", "-", "l", "i", "n", "u", "x", "-", "a", "n", "d", "r", "o", "i", "d">>,
     arch |-> "Aarch64", vendor |-> "Unknown", os |-> "Linux", abi |-> "Android"],
    [triple |-> <<"i", "5", "8", "6", "-", "u", "n", "k", "n", "o", "w", "n", "-", "l", "i", "n", "u", "x", "-", "g", "n", "u">>,
     arch |-> "I586", vendor |-> "Unknown", os |-> "Linux", abi |-> "Gnu"],
    [triple |-> <<"i", "5", "8", "6", "-", "u", "n", "k", "n", "o", "w", "n", "-", "l", "i", "n", "u", "x", "-", "m", "u", "s", "l">>,
     arch |-> "I586", vendor |-> "Unknown", os |-> "Linux", abi |-> "Musl"],
    [triple |-> <<"i", "6", "8", "6", "-", "l", "i", "n", "u", "x", "-", "a", "n", "d", "r", "o", "i", "d">>,
     arch |-> "I686", vendor |-> "Unknown", os |-> "Linux", abi |-> "Android"],
    [triple |-> <<"i", "6", "8", "6", "-", "u", "n", "k", "n", "o", "w", "n", "-", "l", "i", "n", "u", "x", "-", "m", "u", "s", "l">>,
     arch |-> "I686", vendor |-> "Unknown", os |-> "Linux", abi |-> "Musl"],
    [triple |-> <<"i", "6", "8", "6", "-", "u", "n", "k", "n", "o", "w", "n", "-", "f", "r", "e", "e", "b", "s", "d">>,
     arch |-> "I686", vendor |-> "Unknown", os |-> "Freebsd", abi |-> "Unknown"],
    [triple |-> <<"s", "p", "a", "r", "c", "6", "4", "-", "u", "n", "k", "n", "o", "w", "n", "-", "l", "i", "n", "u", "x", "-", "g", "n", "u">>,
     arch |-> "Sparc64", vendor |-> "Unknown", os |-> "Linux", abi |-> "Gnu"],
    [triple |-> <<"s", "p", "a", "r", "c", "v", "9", "-", "s", "u", "n", "-", "s", "o", "l", "a", "r", "i", "s">>,
     arch |-> "Sparcv9", vendor |-> "Sun", os |-> "Solaris", abi |-> "Unknown"],
    [triple |-> <<"w", "a", "s", "m", "3", "2", "-", "w", "a", "s", "i">>,
     arch |-> "Wasm32", vendor |-> "Unknown", os |-> "Wasi", abi |-> "Unknown"],
    [triple |-> <<"w", "a", "s", "m", "3", "2", "-", "u", "n", "k", "n", "o", "w", "n", "-", "u", "n", "k", "n", "o", "w", "n">>,
     arch |-> "Wasm32", vendor |-> "Unknown", os |-> "Unknown", abi |-> "Unknown"]
    }

\* The triples handed to the conversion: every string of up to MaxTripleLen
\* characters of TripleAlphabet, and triples of the parser's tests.
MaxTripleLen == 5
TripleAlphabet == {"-", "a"}
RECURSIVE StringsUpTo(_)
StringsUpTo(n) ==
    IF n = 0 THEN {<<>>}
    ELSE StringsUpTo(n - 1)
            \cup {Append(s, c) : s \in {x \in StringsUpTo(n - 1) : Len(x) = n - 1},
                                 c \in TripleAlphabet}
TripleCorpus ==
    {
    HOST_LINUX_GNU,
    HOST_WINDOWS_MSVC,
    <<"a", "a", "r", "c", "h", "6", "4", "-", "a", "p", "p", "l", "e", "-", "d", "a", "r", "w", "i", "n">>,
    <<"i", "6", "8", "6", "-", "l", "i", "n", "u", "x", "-", "a", "n", "d", "r", "o", "i", "d">>,
    <<"w", "a", "s", "m", "3", "2", "-", "w", "a", "s", "i">>,
    <<"u", "n", "k", "n", "o", "w", "n">>,
    <<"w", "a", "s", "m", "3", "2">>,
    <<"x", "8", "6", "_", "6", "4", "-", "u", "n", "k", "n", "o", "w", "n", "-", "l", "i", "n", "u", "x", "-", "g", "n", "u", "-", "a", "-", "b">>,
    <<"u", "n", "k", "n", "o", "w", "n", "-", "u", "n", "k", "n", "o", "w", "n">>,
    <<"-", "-", "-", "-", "-", "-">>
    }
\* components joined by '-': up to MaxComponents words of TripleWords
MaxComponents == 4
UNKNOWN == <<"u", "n", "k", "n", "o", "w", "n">>
ANDROID == <<"a", "n", "d", "r", "o", "i", "d">>
TripleWords == {<<>>, <<"a">>, LINUX, UNKNOWN, ANDROID}
RECURSIVE JoinedWords(_)
JoinedWords(n) ==
    IF n = 1 THEN TripleWords
    ELSE JoinedWords(n - 1)
            \cup {s \o <<"-">> \o w : s \in {x \in JoinedWords(n - 1) : Dashes(x) = n - 2},
                                      w \in TripleWords}
TripleInputs ==
    StringsUpTo(MaxTripleLen) \cup TripleCorpus \cup JoinedWords(MaxComponents)
        \cup KNOWN_TARGET_TRIPLES \cup {a.triple : a \in assert_target}
        \cup {c.triple : c \in define_target_triples}

NotParsed == TargetTripleParsed(Unknown, Unknown, Unknown, Unknown, <<>>)
ParseIdle ==
    /\ parse_pc = "idle"
    /\ triple = <<>>
    /\ parsed = NotParsed
    /\ answers = None

ParseInit ==
    /\ parse_pc = "from"
    /\ triple \in TripleInputs
    /\ parsed = NotParsed
    /\ answers = None

\* TargetTripleParsed::from(triple)
From ==
    /\ parse_pc = "from"
    /\ parsed' = from(triple)
    /\ parse_pc' = "parsed"
    /\ UNCHANGED <<triple, answers>>
    /\ UNCHANGED other_than_parse

\* the predicates asked of the parsed triple
Predicates ==
    /\ parse_pc = "parsed"
    /\ answers' = Some(predicates(parsed))
    /\ parse_pc' = "asked"
    /\ UNCHANGED <<triple, parsed>>
    /\ UNCHANGED other_than_parse

ParseNext ==
    \/ From
    \/ Predicates

(***************************************************************************)
(* The compiler invocation of build_cargo_target                           *)
(***************************************************************************)

ARG_BUILD == <<"b", "u", "i", "l", "d">>
ARG_PROFILE == <<"-", "-", "p", "r", "o", "f", "i", "l", "e">>
ARG_MESSAGE_FORMAT_JSON == <<"-", "-", "m", "e", "s", "s", "a", "g", "e", "-", "f", "o", "r", "m", "a", "t", "=", "j", "s", "o", "n">>
ARG_NO_DEFAULT_FEATURES == <<"-", "-", "n", "o", "-", "d", "e", "f", "a", "u", "l", "t", "-", "f", "e", "a", "t", "u", "r", "e", "s">>
ARG_ALL_FEATURES == <<"-", "-", "a", "l", "l", "-", "f", "e", "a", "t", "u", "r", "e", "s">>
ARG_FEATURES == <<"-", "-", "f", "e", "a", "t", "u", "r", "e", "s">>
ARG_WORKSPACE == <<"-", "-", "w", "o", "r", "k", "s", "p", "a", "c", "e">>
ARG_PACKAGE == <<"-", "-", "p", "a", "c", "k", "a", "g", "e">>

\* CargoTargetFeatureList, CargoTargetPackages, CargoBuildTarget
All == [kind |-> "All"]
List(features) == [kind |-> "List", list |-> features]
CargoTargetPackages(packages) ==
    {[kind |-> "Workspace"]} \cup {[kind |-> "Package", package |-> id] : id \in packages}
CargoBuildTarget(profile, package, no_default_features, features) ==
    [profile |-> profile, package |-> package,
     features |-> [no_default_features |-> no_default_features, features |-> features]]

\* the fixed head of the command line
build_args(target_) == <<ARG_BUILD, ARG_PROFILE, target_.profile, ARG_MESSAGE_FORMAT_JSON>>

no_default_features_args(target_) ==
    IF target_.features.no_default_features THEN <<ARG_NO_DEFAULT_FEATURES>> ELSE <<>>

\* `--features` without looking whether there are any
features_args_for_any_list(features) ==
    IF features.kind = "All" THEN <<ARG_ALL_FEATURES>>
    ELSE <<ARG_FEATURES>> \o features.list

\* the match on target.features.features
features_args(features) ==
    IF features.kind = "All" THEN <<ARG_ALL_FEATURES>>
    ELSE IF features.list # <<>> THEN <<ARG_FEATURES>> \o features.list
    ELSE <<>>

\* the match on target.package
package_args(package) ==
    IF package.kind = "Workspace" THEN <<ARG_WORKSPACE>>
    ELSE <<ARG_PACKAGE, package.package>>

\* The targets a graph may hold: the profiles, feature lists of up to
\* MaxFeatures names and packages below.
MaxFeatures == 2
FeatureNames == {<<"f">>, <<"g">>}
PROFILE_RELEASE == <<"r", "e", "l", "e", "a", "s", "e">>
FeatureLists == UNION {[1..n -> FeatureNames] : n \in 0..MaxFeatures}
CargoBuildTargets ==
    {CargoBuildTarget(profile, package, no_default_features, features) :
        profile \in {PROFILE_DIST, PROFILE_RELEASE},
        package \in CargoTargetPackages({PKG_P, PKG_Q}),
        no_default_features \in BOOLEAN,
        features \in {All} \cup {List(l) : l \in FeatureLists}}

NoTarget == CargoBuildTarget(PROFILE_DIST, [kind |-> "Workspace"], FALSE, List(<<>>))
CommandIdle ==
    /\ command_pc = "idle"
    /\ build_target = NoTarget
    /\ command = <<>>

CommandInit ==
    /\ command_pc = "new"
    /\ build_target \in CargoBuildTargets
    /\ command = <<>>

\* Command::new(cargo).arg("build") ... .arg("--message-format=json")
CommandNew ==
    /\ command_pc = "new"
    /\ command' = build_args(build_target)
    /\ command_pc' = "features"
    /\ UNCHANGED build_target
    /\ UNCHANGED other_than_command

\* the feature selection
CommandFeatures ==
    /\ command_pc = "features"
    /\ command' = command \o no_default_features_args(build_target)
                          \o features_args(build_target.features.features)
    /\ command_pc' = "package"
    /\ UNCHANGED build_target
    /\ UNCHANGED other_than_command

\* the package scope; the command is then spawned
CommandPackage ==
    /\ command_pc = "package"
    /\ command' = command \o package_args(build_target.package)
    /\ command_pc' = "spawn"
    /\ UNCHANGED build_target
    /\ UNCHANGED other_than_command

CommandNext ==
    \/ CommandNew
    \/ CommandFeatures
    \/ CommandPackage

(***************************************************************************)
(* tar_distributable, step by step                                         *)
(***************************************************************************)
\* what the encoders of flate2 and xz2 write
stream_format(encoder) ==
    CASE encoder = "GzEncoder" -> "gzip"
      [] encoder = "XzEncoder" -> "xz"
      [] encoder = "ZlibEncoder" -> "zlib"

NoFile == [created |-> FALSE]
\* File::create: an empty file
CreatedFile ==
    [created |-> TRUE, method |-> "none", top |-> None, files |-> EmptyMap,
     tar_finished |-> FALSE, stream_finished |-> FALSE]

FULL_NAME_A == <<"a", "-", "v", "1">>
FULL_NAME_B == <<"b", "-", "v", "2">>
TarDistribs ==
    {[full_name |-> n, bundle |-> Tar(c)] : n \in {FULL_NAME_A, FULL_NAME_B}, c \in CompressionImpl}
\* the staging directories: any of three files, or none
StagedDirs ==
    {[name \in names |-> name] : names \in SUBSET {<<"a">>, <<"a", ".", "e", "x", "e">>, <<"R">>}}

TarIdle ==
    /\ tar_pc = "idle"
    /\ tar_distrib = [full_name |-> <<>>, bundle |-> Zip]
    /\ staged = EmptyMap
    /\ final_zip_file = NoFile
    /\ tar_error = None

TarInit ==
    /\ tar_pc = "create"
    /\ tar_distrib \in TarDistribs
    /\ staged \in StagedDirs
    /\ final_zip_file = NoFile
    /\ tar_error = None

TarFails(what) ==
    /\ tar_pc' = "failed"
    /\ tar_error' = Some(what)

\* File::create(final_zip_path)
TarCreate(ok) ==
    /\ tar_pc = "create"
    /\ IF ok
       THEN /\ final_zip_file' = CreatedFile
            /\ tar_pc' = "wrap"
            /\ UNCHANGED tar_error
       ELSE /\ TarFails("failed to create file for distributable")
            /\ UNCHANGED final_zip_file
    /\ UNCHANGED <<tar_distrib, staged>>
    /\ UNCHANGED other_than_tar

\* the file wrapped in the compression of the arm, and the tar::Builder on it
TarWrap ==
    /\ tar_pc = "wrap"
    /\ final_zip_file' = [final_zip_file EXCEPT
                             !.method = compression_stream(tar_distrib.bundle.compression)]
    /\ tar_pc' = "append"
    /\ UNCHANGED <<tar_distrib, staged, tar_error>>
    /\ UNCHANGED other_than_tar

\* tar.append_dir_all(distrib_dir_name, &distrib.dir_path)
TarAppendDirAll(ok) ==
    /\ tar_pc = "append"
    /\ IF ok
       THEN /\ final_zip_file' = [final_zip_file EXCEPT
                                     !.top = Some(tar_distrib.full_name),
                                     !.files = staged]
            /\ tar_pc' = "into_inner"
            /\ UNCHANGED tar_error
       ELSE /\ TarFails("failed to copy directory into tar")
            /\ UNCHANGED final_zip_file
    /\ UNCHANGED <<tar_distrib, staged>>
    /\ UNCHANGED other_than_tar

\* tar.into_inner(): the tar is finished
TarIntoInner(ok) ==
    /\ tar_pc = "into_inner"
    /\ IF ok
       THEN /\ final_zip_file' = [final_zip_file EXCEPT !.tar_finished = TRUE]
            /\ tar_pc' = "finish"
            /\ UNCHANGED tar_error
       ELSE /\ TarFails("failed to write tar")
            /\ UNCHANGED final_zip_file
    /\ UNCHANGED <<tar_distrib, staged>>
    /\ UNCHANGED other_than_tar

\* zip_output.finish(): the compression is finished, the file dropped
TarFinish(ok) ==
    /\ tar_pc = "finish"
    /\ IF ok
       THEN /\ final_zip_file' = [final_zip_file EXCEPT !.stream_finished = TRUE]
            /\ tar_pc' = "done"
            /\ UNCHANGED tar_error
       ELSE /\ TarFails("failed to write archive")
            /\ UNCHANGED final_zip_file
    /\ UNCHANGED <<tar_distrib, staged>>
    /\ UNCHANGED other_than_tar

TarNext ==
    \/ \E ok \in BOOLEAN : TarCreate(ok)
    \/ TarWrap
    \/ \E ok \in BOOLEAN : TarAppendDirAll(ok)
    \/ \E ok \in BOOLEAN : TarIntoInner(ok)
    \/ \E ok \in BOOLEAN : TarFinish(ok)

(***************************************************************************)
(* do_init                                                                 *)
(***************************************************************************)
\* the runs of do_init in a row
MaxInitRuns == 2

\* A toml document is the set of the key paths it has; a file is a document
\* and the empty lines after it, or a text that does not parse.
NoDocument == {}
ProfileTables ==
    {{}, {<<"profile">>}, {<<"profile">>, <<"profile", "release">>},
     {<<"profile">>, <<"profile", "dist">>}}
MetadataTables(pre) ==
    {{}, {<<pre>>}, {<<pre>>, <<pre, "metadata">>},
     {<<pre>>, <<pre, "metadata">>, <<pre, "metadata", "dist">>}}
\* the root manifest is that of a package, of a workspace, or of both
Documents ==
    {p \cup k \cup w : p \in ProfileTables, k \in MetadataTables("package"),
                       w \in MetadataTables("workspace")}
        \ {p : p \in ProfileTables}
ManifestFiles ==
    {[parsable |-> TRUE, doc |-> d, newlines |-> 0, writable |-> w] :
        d \in Documents, w \in BOOLEAN}
    \cup {[parsable |-> FALSE, doc |-> NoDocument, newlines |-> 0, writable |-> w] : w \in BOOLEAN}

\* item.or_insert(toml_edit::table()) at a key path
or_insert(doc, path) == doc \cup {path}
is_none(doc, path) == path \notin doc

\* the [profile.dist] block put in place of the one that is there
setup_profile_overwrites(doc) ==
    LET profiles == or_insert(doc, <<"profile">>)
    IN  [ok |-> TRUE,
         doc |-> profiles \cup {<<"profile", "dist">>,
                                <<"profile", "dist", "inherits">>,
                                <<"profile", "dist", "debug">>,
                                <<"profile", "dist", "split-debuginfo">>}]

\* Setup the [profile.dist]
setup_profile(doc) ==
    LET profiles == or_insert(doc, <<"profile">>)
    IN  IF ~is_none(profiles, <<"profile", "dist">>)
        THEN [ok |-> FALSE, err |-> "already init! (based on [profile.dist])"]
        ELSE [ok |-> TRUE,
              doc |-> profiles \cup {<<"profile", "dist">>,
                                     <<"profile", "dist", "inherits">>,
                                     <<"profile", "dist", "debug">>,
                                     <<"profile", "dist", "split-debuginfo">>}]

metadata_pre_key(has_root_package) == IF has_root_package THEN "package" ELSE "workspace"

\* Setup [workspace.metadata.dist] or [package.metadata.dist]
setup_metadata(doc, has_root_package) ==
    LET pre == metadata_pre_key(has_root_package)
        metadata == or_insert(or_insert(doc, <<pre>>), <<pre, "metadata">>)
    IN  IF ~is_none(metadata, <<pre, "metadata", "dist">>)
        THEN [ok |-> FALSE, err |-> "already init! (based on [workspace.metadata.dist])"]
        ELSE [ok |-> TRUE,
              doc |-> metadata \cup {<<pre, "metadata", "dist">>,
                                     <<pre, "metadata", "dist", "os">>,
                                     <<pre, "metadata", "dist", "cpu">>}]

\* writeln!(file, "{}", workspace_toml) from the start of the file, which
\* is not truncated: the document is no shorter than the one it was parsed
\* from, so nothing of the old text is left after it
write_document(file, doc) == [file EXCEPT !.doc = doc, !.newlines = @ + 1]

DoInitIdle ==
    /\ init_pc = "idle"
    /\ manifest_file = [parsable |-> FALSE, doc |-> NoDocument, newlines |-> 0, writable |-> FALSE]
    /\ manifest_at_start = manifest_file
    /\ root_package = FALSE
    /\ workspace_toml = NoDocument
    /\ init_results = <<>>

DoInitInit ==
    /\ init_pc = "load"
    /\ manifest_file \in ManifestFiles
    /\ manifest_at_start = manifest_file
    /\ root_package = FALSE
    /\ workspace_toml = NoDocument
    /\ init_results = <<>>

\* do_init returns
DoInitReturns(result) ==
    /\ init_results' = Append(init_results, result)
    /\ init_pc' = "returned"

\* workspace_info, and the workspace toml loaded to edit
DoInitLoad ==
    /\ init_pc = "load"
    /\ IF manifest_file.parsable
       THEN /\ workspace_toml' = manifest_file.doc
            /\ root_package' = (<<"package">> \in manifest_file.doc)
            /\ init_pc' = "profile"
            /\ UNCHANGED init_results
       ELSE /\ DoInitReturns([ok |-> FALSE, err |-> "couldn't parse root workspace Cargo.toml"])
            /\ UNCHANGED <<workspace_toml, root_package>>
    /\ UNCHANGED <<manifest_file, manifest_at_start>>
    /\ UNCHANGED other_than_init

DoInitProfile ==
    /\ init_pc = "profile"
    /\ LET set == setup_profile(workspace_toml)
       IN  IF set.ok
           THEN /\ workspace_toml' = set.doc
                /\ init_pc' = "metadata"
                /\ UNCHANGED init_results
           ELSE /\ DoInitReturns(set)
                /\ UNCHANGED workspace_toml
    /\ UNCHANGED <<manifest_file, manifest_at_start, root_package>>
    /\ UNCHANGED other_than_init

DoInitMetadata ==
    /\ init_pc = "metadata"
    /\ LET set == setup_metadata(workspace_toml, root_package)
       IN  IF set.ok
           THEN /\ workspace_toml' = set.doc
                /\ init_pc' = "write"
                /\ UNCHANGED init_results
           ELSE /\ DoInitReturns(set)
                /\ UNCHANGED workspace_toml
    /\ UNCHANGED <<manifest_file, manifest_at_start, root_package>>
    /\ UNCHANGED other_than_init

\* the file opened for writing and the document written
DoInitWrite ==
    /\ init_pc = "write"
    /\ IF manifest_file.writable
       THEN /\ manifest_file' = write_document(manifest_file, workspace_toml)
            /\ DoInitReturns([ok |-> TRUE])
       ELSE /\ DoInitReturns([ok |-> FALSE, err |-> "couldn't load root workspace Cargo.toml"])
            /\ UNCHANGED manifest_file
    /\ UNCHANGED <<manifest_at_start, root_package, workspace_toml>>
    /\ UNCHANGED other_than_init

\* the command is run again
DoInitAgain ==
    /\ init_pc = "returned"
    /\ Len(init_results) < MaxInitRuns
    /\ init_pc' = "load"
    /\ workspace_toml' = NoDocument
    /\ root_package' = FALSE
    /\ manifest_at_start' = manifest_file
    /\ UNCHANGED <<manifest_file, init_results>>
    /\ UNCHANGED other_than_init

DoInitNext ==
    \/ DoInitLoad
    \/ DoInitProfile
    \/ DoInitMetadata
    \/ DoInitWrite
    \/ DoInitAgain

vars == <<dist_vars, bins_vars, stream_vars, reorder_vars, parse_vars, command_vars,
          tar_vars, init_vars>>
Init == DistInit /\ BinsIdle /\ StreamIdle /\ ReorderIdle /\ ParseIdle /\ CommandIdle /\ TarIdle /\ DoInitIdle
Next == DistNext
Spec == Init /\ [][Next]_vars

\* the legacy pipeline before it has started, for the runs of the reconciler
DistIdle ==
    /\ workspace = <<>>
    /\ host_target_triple = HOST_WINDOWS_MSVC
    /\ root_files = {}
    /\ pc = "gather_work"
    /\ release_order = <<>>
    /\ distrib_i = 0
    /\ target_i = 0
    /\ task = NoTask
    /\ n_messages = 0
    /\ expected_exes = EmptyMap
    /\ new_built_artifacts = EmptyMap
    /\ to_copy = {}
    /\ built_artifacts = EmptyMap
    /\ target_files = EmptyMap
    /\ staging = EmptyMap
    /\ archives = EmptyMap
    /\ report = None
    /\ error = None

InitBins == DistIdle /\ BinsInit /\ StreamIdle /\ ReorderIdle /\ ParseIdle /\ CommandIdle /\ TarIdle /\ DoInitIdle
NextBins == BinsNext
SpecBins == InitBins /\ [][NextBins]_vars

InitReorder == DistIdle /\ StreamIdle /\ ReorderInit /\ ParseIdle /\ CommandIdle /\ TarIdle /\ DoInitIdle
NextReorder == ReorderNext
SpecReorder == InitReorder /\ [][NextReorder]_vars

\* The child and build_cargo_target are two processes: each takes its next
\* step when it is not blocked.
InitStream == DistIdle /\ BinsIdle /\ StreamInit /\ ReorderIdle /\ ParseIdle /\ CommandIdle /\ TarIdle /\ DoInitIdle
NextStream == StreamNext
SpecStream == InitStream /\ [][NextStream]_vars /\ WF_vars(ChildStep) /\ WF_vars(ReaderStep)

\* the conversion of one target triple
InitParse == DistIdle /\ BinsIdle /\ StreamIdle /\ ReorderIdle /\ ParseInit /\ CommandIdle /\ TarIdle /\ DoInitIdle
NextParse == ParseNext
SpecParse == InitParse /\ [][NextParse]_vars

\* the construction of one compiler invocation
InitCommand == DistIdle /\ BinsIdle /\ StreamIdle /\ ReorderIdle /\ ParseIdle /\ CommandInit /\ TarIdle /\ DoInitIdle
NextCommand == CommandNext
SpecCommand == InitCommand /\ [][NextCommand]_vars

\* one call of tar_distributable
InitTar == DistIdle /\ BinsIdle /\ StreamIdle /\ ReorderIdle /\ ParseIdle /\ CommandIdle
              /\ TarInit /\ DoInitIdle
NextTar == TarNext
SpecTar == InitTar /\ [][NextTar]_vars

\* the runs of do_init on one manifest
InitDoInit == DistIdle /\ BinsIdle /\ StreamIdle /\ ReorderIdle /\ ParseIdle /\ CommandIdle
                 /\ TarIdle /\ DoInitInit
NextDoInit == DoInitNext
SpecDoInit == InitDoInit /\ [][NextDoInit]_vars

(***************************************************************************)
(* Properties of the legacy pipeline (checked under Spec)                  *)
(***************************************************************************)
GraphBuilt == pc # "gather_work"
ArtifactIdxs == 0..(Len(dist.artifacts) - 1)
DistributableIdxs == 0..(Len(dist.distributables) - 1)
Requiring(artifact_idx) ==
    {d \in DistributableIdxs : artifact_idx \in At(dist.distributables, d).required_artifacts}
StagingDirsUnique ==
    \A d1, d2 \in DistributableIdxs :
        d1 # d2 => At(dist.distributables, d1).dir_path # At(dist.distributables, d2).dir_path

\* the file of the artifact is in the staging directory of distributable d,
\* under the source's file name, with the content of the file the compiler
\* reported
StagedIdentical(artifact_idx, d) ==
    LET built_artifact == built_artifacts[artifact_idx]
        dir == At(dist.distributables, d).dir_path
        name == file_name(built_artifact).val
    IN  /\ dir \in DOMAIN staging
        /\ name \in DOMAIN staging[dir]
        /\ staging[dir][name] = target_files[built_artifact]

\* C1: on every successful run, every expected artifact has its file at
\* every declared copy destination (the staging directory of each
\* distributable that requires it, under the source's file name), with
\* the content of the file the compiler reported for that artifact.
C1_StagedCopiesIdentical ==
    pc = "done" =>
        \A a \in ArtifactIdxs : \A d \in Requiring(a) : StagedIdentical(a, d)

\* The same holds of every run whose distributables have staging
\* directories of their own (see C5).
C1_StagedCopiesIdenticalInOwnDirs ==
    (pc = "done" /\ StagingDirsUnique) =>
        \A a \in ArtifactIdxs : \A d \in Requiring(a) : StagedIdentical(a, d)

\* every expected artifact of every build target has been built and copied
\* into every distributable that requires it, and no build is running
AllBuildsStaged ==
    /\ target_i = Len(dist.targets)
    /\ task.state # "running"
    /\ to_copy = {}
    /\ \A t \in DOMAIN dist.targets : \A a \in Range(dist.targets[t].expected_artifacts) :
        /\ a \in DOMAIN built_artifacts
        /\ \A d \in Requiring(a) :
            file_name(built_artifacts[a]).val
                \in DOMAIN staging[At(dist.distributables, d).dir_path]

C4_ChildFailureIsTerminal ==
    /\ (task.state = "exited" /\ ~task.success) => (error.some /\ pc = "failed")
    /\ report.some => (task.state = "exited" /\ task.success)

\* C5: no two distributables of the graph share their staging directory.
C5_StagingDirsUnique == GraphBuilt => StagingDirsUnique

\* C6: every artifact index is in the required_artifacts of exactly one
\* distributable, every distributable index is in exactly one release (and
\* once in it), and every index a distributable or a release refers to
\* resolves.
C6_GraphIndicesPartition ==
    GraphBuilt =>
        LET g == dist
            artifact_idxs == 0..(Len(g.artifacts) - 1)
            distributable_idxs == 0..(Len(g.distributables) - 1)
        IN  /\ \A a \in artifact_idxs :
                Cardinality({d \in distributable_idxs :
                    a \in At(g.distributables, d).required_artifacts}) = 1
            /\ \A d \in distributable_idxs :
                /\ Cardinality({r \in DOMAIN g.releases :
                        d \in Range(g.releases[r].distributables)}) = 1
                /\ \A r \in DOMAIN g.releases :
                    Cardinality({j \in DOMAIN g.releases[r].distributables :
                        g.releases[r].distributables[j] = d}) <= 1
            /\ \A d \in distributable_idxs :
                At(g.distributables, d).required_artifacts \subseteq artifact_idxs
            /\ \A r \in DOMAIN g.releases :
                Range(g.releases[r].distributables) \subseteq distributable_idxs

\* a graph with two artifacts, two distributables and two releases
C6_Witness ==
    /\ GraphBuilt
    /\ Len(dist.artifacts) = 2
    /\ Len(dist.distributables) = 2
    /\ Len(dist.releases) = 2

\* C7: in the report, the kind of each distributable is Zip exactly when
\* its bundle style is Zip, and a Tar kind when it is Tar(compression).
C7_KindReflectsBundleStyle ==
    report.some =>
        \A r \in DOMAIN dist.releases : \A j \in DOMAIN dist.releases[r].distributables :
            LET distrib == At(dist.distributables, dist.releases[r].distributables[j])
                kind == report.val[r].distributables[j].kind
            IN  (kind = "Zip") <=> (distrib.bundle.style = "Zip")

\* the file names an archive of distributable d has to hold
ExpectedBasenames(d) ==
    LET distrib == At(dist.distributables, d)
    IN  {file_name(built_artifacts[a]).val : a \in distrib.required_artifacts}
        \cup {file_name(distrib.assets[i]).val : i \in DOMAIN distrib.assets}

ArchiveHoldsExpected(d) ==
    LET distrib == At(dist.distributables, d)
    IN  /\ distrib.file_path \in DOMAIN archives
        /\ DOMAIN archives[distrib.file_path].files = ExpectedBasenames(d)

\* C8: after a successful run the file names in the archive of every
\* distributable are those of the produced paths of its required artifacts
\* and those of its assets, no more and no less.
C8_ArchiveBasenames ==
    pc = "done" => \A d \in DistributableIdxs : ArchiveHoldsExpected(d)

\* The same holds of every run whose distributables have staging
\* directories of their own (see C5), whatever an earlier run left.
C8_ArchiveBasenamesInOwnDirs ==
    (pc = "done" /\ StagingDirsUnique) => \A d \in DistributableIdxs : ArchiveHoldsExpected(d)

\* the expected artifacts of the build task the driver is running
TaskArtifacts == Range(At(dist.targets, target_i).expected_artifacts)
Streamed == pc = "stream" \/ (pc = "failed" /\ task.state = "exited")

\* C9: the driver seeds one entry per expected artifact of the task, with an
\* empty path; when the stream has ended it returns success only if no
\* entry has an empty path, and then the returned map has exactly the
\* task's expected artifact indices as keys (each with its entry's path);
\* otherwise it fails with an error naming an executable and its package
\* whose entry is empty.
C9_SeedAndCheck ==
    /\ Streamed =>
        /\ {expected_exes[k].idx : k \in DOMAIN expected_exes} = TaskArtifacts
        /\ Cardinality(DOMAIN expected_exes) = Cardinality(TaskArtifacts)
        /\ \A k \in DOMAIN expected_exes :
            k = ExeKey(At(dist.artifacts, expected_exes[k].idx))
    /\ (pc = "stream" /\ n_messages = 0) =>
        \A k \in DOMAIN expected_exes : expected_exes[k].path = <<>>
    /\ (task.state = "exited" /\ pc # "failed") =>
        /\ \A k \in DOMAIN expected_exes : expected_exes[k].path # <<>>
        /\ DOMAIN new_built_artifacts = Range(dist.targets[1].expected_artifacts)
        /\ \A k \in DOMAIN expected_exes :
            new_built_artifacts[expected_exes[k].idx] = expected_exes[k].path
    /\ (task.state = "exited" /\ pc = "failed") =>
        \E k \in DOMAIN expected_exes :
            /\ expected_exes[k].path = <<>>
            /\ error = Some(FailedToFindBin(k))

\* a build of two expected artifacts returned both
C9_Witness ==
    /\ task.state = "exited"
    /\ pc = "populate"
    /\ Cardinality(DOMAIN new_built_artifacts) = 2

\* expected_exes as the claim has it after a message: the entry keyed
\* (package_id, stem of the executable) holds the executable's path, every
\* other entry is as before
AfterMessage(expected, message) ==
    IF message.kind = "CompilerArtifact" /\ message.executable.some
    THEN [k \in DOMAIN expected |->
            IF k = <<message.package_id, file_stem(message.executable.val).val>>
            THEN [idx |-> expected[k].idx, path |-> message.executable.val]
            ELSE expected[k]]
    ELSE expected

Processed == bins_pc = "done"
EntryOf(key) == expectations.packages[key[1]][key[2]]
\* the expected entries never located by found_bin, or located at a path
\* that is not in the build output
MissingKeys ==
    {key \in ExpectedKeys(expectations) :
        \/ ~EntryOf(key).src_path.some
        \/ EntryOf(key).src_path.val \notin DOMAIN build_output}
LeastMissing == CHOOSE key \in MissingKeys : \A o \in MissingKeys \ {key} : KeyLess(key, o)
IsMissingBinaries(result) == ~result.ok /\ result.err.kind = "MissingBinaries"

\* C3, as stated: process_bins fails with a missing-binary error whenever
\* some expected entry was never located or its recorded path does not
\* exist, and for every such entry (p, foo) the error returned is
\* MissingBinaries naming p and foo.
C3_MissingBinaryNamesEveryMissing ==
    Processed =>
        /\ MissingKeys # {} => IsMissingBinaries(bins_result.val)
        /\ \A key \in MissingKeys :
               bins_result.val = Err(MissingBinaries(key[1], key[2]))

\* C3, amended: when some expected entry was never located or its recorded
\* path does not exist, process_bins fails; the error is either
\* MissingBinaries naming the first such entry in the order of the sorted
\* maps (package id, then binary name), or the error of the linkage
\* analysis or of a copy for an entry that is not missing. A
\* MissingBinaries error is returned only when an entry is missing.
C3_FirstMissingOrEarlierError ==
    Processed =>
        /\ MissingKeys # {} =>
              /\ ~bins_result.val.ok
              /\ IsMissingBinaries(bins_result.val) =>
                     bins_result.val = Err(MissingBinaries(LeastMissing[1], LeastMissing[2]))
              /\ ~IsMissingBinaries(bins_result.val) =>
                     \E key \in ExpectedKeys(expectations) \ MissingKeys :
                         bins_result.val.err.path \in
                             {EntryOf(key).src_path.val} \cup Range(EntryOf(key).sym_paths)
        /\ IsMissingBinaries(bins_result.val) => MissingKeys # {}

\* two entries are missing and process_bins has named one of them
C3_Witness ==
    /\ Processed
    /\ Cardinality(MissingKeys) >= 2
    /\ IsMissingBinaries(bins_result.val)

\* the call found_bin(pkg_id, src_path, _) hits an expected binary
Matches(self, pkg_id, src_path) ==
    /\ pkg_id \in DOMAIN self.packages
    /\ file_stem(src_path).some
    /\ file_stem(src_path).val \in DOMAIN self.packages[pkg_id]

\* C11: found_bin leaves the whole expectation map unchanged when the
\* package id is not in the map, when src_path has no file stem, or when
\* the stem is not an expected binary of the package; and no call adds a
\* package or a binary entry.
C11_FoundBinFrame ==
    [][\A pkg_id \in FoundPackages, src_path \in FoundPaths,
          maybe_symbols \in SymbolLists, written \in BOOLEAN :
            FoundBin(pkg_id, src_path, maybe_symbols, written) =>
                /\ ~Matches(expectations, pkg_id, src_path) => expectations' = expectations
                /\ ExpectedKeys(expectations') = ExpectedKeys(expectations)
                /\ DOMAIN expectations'.packages = DOMAIN expectations.packages]_vars

\* binaries are expected, found_bin has been called, and no entry is located
C11_Witness ==
    /\ bins_pc = "build"
    /\ n_found = MaxFound
    /\ Cardinality(ExpectedKeys(expectations)) = 2
    /\ \A key \in ExpectedKeys(expectations) : ~EntryOf(key).src_path.some

\* the symbol files among the candidates, in their order
RECURSIVE PdbsOf(_)
PdbsOf(candidates) ==
    IF candidates = <<>> THEN <<>>
    ELSE LET name == LastComponent(Head(candidates))
             n == Len(name)
             keep == /\ n >= 5
                     /\ SubSeq(name, n - 3, n) = <<DOT>> \o PDB
         IN  (IF keep THEN <<Head(candidates)>> ELSE <<>>) \o PdbsOf(Tail(candidates))

\* C12: on a matching found_bin the entry's src_path becomes the given path,
\* whatever it was, the candidate symbol paths with extension pdb are
\* appended to its sym_paths in their order, its idx stays, and every other
\* entry of the map is unchanged.
C12_FoundBinRecords ==
    [][\A pkg_id \in FoundPackages, src_path \in FoundPaths,
          maybe_symbols \in SymbolLists, written \in BOOLEAN :
            (FoundBin(pkg_id, src_path, maybe_symbols, written)
                /\ Matches(expectations, pkg_id, src_path)) =>
                LET hit == <<pkg_id, file_stem(src_path).val>>
                    old == expectations.packages[hit[1]][hit[2]]
                    now == expectations'.packages[hit[1]][hit[2]]
                IN  /\ now.src_path = Some(src_path)
                    /\ now.sym_paths = old.sym_paths \o PdbsOf(maybe_symbols)
                    /\ now.idx = old.idx
                    /\ expectations'.fake = expectations.fake
                    /\ ExpectedKeys(expectations') = ExpectedKeys(expectations)
                    /\ \A key \in ExpectedKeys(expectations) \ {hit} :
                           expectations'.packages[key[1]][key[2]] = EntryOf(key)]_vars

\* (p, a) was found twice, the second time at another path, and has the
\* pdb of both calls and not the txt
C12_Witness ==
    /\ <<PKG_P, BIN_A>> \in ExpectedKeys(expectations)
    /\ EntryOf(<<PKG_P, BIN_A>>).src_path = Some(EXE_T_A_EXE)
    /\ EntryOf(<<PKG_P, BIN_A>>).sym_paths = <<SYM_T_A_PDB, SYM_T_A_PDB>>
    /\ EXE_T_A \in DOMAIN build_output

\* the entries process_bins does not find missing, in the order it visits
\* them, and the paths they are located at
IsPresent(key) == key \notin MissingKeys
PresentKeys == SelectSeq(Sorted(ExpectedKeys(expectations)), IsPresent)
PresentPaths == [i \in 1..Len(PresentKeys) |-> EntryOf(PresentKeys[i]).src_path.val]
IsPrefix(s, u) == Len(s) <= Len(u) /\ s = SubSeq(u, 1, Len(s))
Aborted == ~bins_result.val.ok /\ bins_result.val.err.kind # "MissingBinaries"
\* the linkage has one library: fakelib, without a source, in `other`
IsFakeLinkage(linkage) ==
    /\ linkage.some
    /\ DOMAIN linkage.val = DOMAIN DefaultLinkage
    /\ linkage.val.other = {[path |-> FAKELIB, source |-> None]}
    /\ linkage.val.system = {} /\ linkage.val.homebrew = {}
    /\ linkage.val.public_unmanaged = {} /\ linkage.val.frameworks = {}

StreamOver == stream_pc \in {"failed", "returned"}

\* C14: build_cargo_target reads the child's standard output while the
\* child runs: for every pipe capacity and every number of messages, the
\* child (writing to a full pipe) and the loop (reading) are never both
\* blocked before the stream is over; the stream is over only when every
\* message the child emitted has been read; and once the child closes its
\* standard output the loop comes to the end of the stream.
C14_NoPipeDeadlock ==
    /\ [](stream_pc = "reading" => (ENABLED ChildStep \/ ENABLED ReaderStep))
    /\ [](StreamOver => (stdout_closed /\ pipe = <<>> /\ n_read = emits /\ n_written = emits))
    /\ <>StreamOver
    /\ (stdout_closed ~> StreamOver)

\* the child has more to write than the pipe holds: the pipe is full, the
\* child is blocked and the loop is reading
C14_Witness ==
    /\ stream_pc = "reading"
    /\ emits > pipe_capacity
    /\ Len(pipe) = pipe_capacity
    /\ n_written < emits
    /\ n_read > 0

(***************************************************************************)
(* Properties of found_bin in two orders (checked under SpecReorder)       *)
(***************************************************************************)
\* C15: for calls of found_bin that are for pairwise distinct (package id,
\* stem) keys, every permutation of the calls leaves the expectations in
\* the same state and makes process_bins return the same result.
C15_OrderOfCallsIsImmaterial ==
    /\ reorder_pc \in {"process", "done"} => permuted_expectations = expectations
    /\ reorder_pc = "done" => results[1] = results[2]

\* two calls hit two entries and were made in the other order by the second
\* run; process_bins has returned
C15_Witness ==
    /\ reorder_pc = "done"
    /\ Len(calls) = 2
    /\ permutation = <<2, 1>>
    /\ \A key \in ExpectedKeys(expectations) : EntryOf(key).src_path.some
    /\ Cardinality(ExpectedKeys(expectations)) = 2
    /\ results[1] = Ok

(***************************************************************************)
(* Properties of the graph gather_work builds (checked under Spec)         *)
(***************************************************************************)
\* the binary build targets of the workspace: <<i, j>> is build target j of
\* package i; and the place of one of them in their enumeration
BinaryTargets ==
    {bt \in UNION {{i} \X DOMAIN workspace[i].build_targets : i \in DOMAIN workspace} :
        workspace[bt[1]].build_targets[bt[2]].kind = "Binary"}
PlaceOf(bt) ==
    Cardinality({o \in BinaryTargets : o[1] < bt[1] \/ (o[1] = bt[1] /\ o[2] < bt[2])})

\* C16: the graph has exactly one build task: the host triple, profile
\* "dist", the whole workspace, default features; and exactly one expected
\* artifact for each binary build target of each package of the workspace
\* (none for another build target), built by task 0 and listed in task 0's
\* expected_artifacts in the order of the enumeration.
C16_OneBuildTaskAndItsArtifacts ==
    GraphBuilt =>
        LET g == dist
            n == Cardinality(BinaryTargets)
        IN  /\ Len(g.targets) = 1
            /\ g.targets[1].target_triple = host_target_triple
            /\ g.targets[1].profile = <<"d", "i", "s", "t">>
            /\ g.targets[1].package = [kind |-> "Workspace"]
            /\ g.targets[1].features.no_default_features = FALSE
            /\ g.targets[1].features.features = [kind |-> "List", list |-> <<>>]
            /\ Len(g.artifacts) = n
            /\ g.targets[1].expected_artifacts = [k \in 1..n |-> k - 1]
            /\ \A bt \in BinaryTargets :
                  At(g.artifacts, PlaceOf(bt)) =
                      [exe_name |-> workspace[bt[1]].build_targets[bt[2]].name,
                       package_id |-> workspace[bt[1]].id,
                       build_target |-> 0]

\* a package with a library and a binary: one artifact
C16_Witness ==
    /\ GraphBuilt
    /\ Len(workspace) = 1
    /\ Len(workspace[1].build_targets) = 2
    /\ Len(dist.artifacts) = 1

\* C17: every expected artifact has one distributable, whose bundle style is
\* Zip if the target triple contains "windows" and Tar(Xzip) otherwise: Tar(Xzip)
\* on host x86_64-unknown-linux-gnu, Zip on host x86_64-pc-windows-msvc.
C17_BundleStyleByTriple ==
    GraphBuilt =>
        LET g == dist
            windows == \E i \in 1..Len(host_target_triple) :
                          /\ i + 6 <= Len(host_target_triple)
                          /\ host_target_triple[i] = "w" /\ host_target_triple[i + 1] = "i"
                          /\ host_target_triple[i + 2] = "n" /\ host_target_triple[i + 3] = "d"
                          /\ host_target_triple[i + 4] = "o" /\ host_target_triple[i + 5] = "w"
                          /\ host_target_triple[i + 6] = "s"
        IN  /\ Len(g.distributables) = Len(g.artifacts)
            /\ \A a \in 1..Len(g.artifacts) :
                  /\ g.distributables[a].required_artifacts = {a - 1}
                  /\ g.distributables[a].target_triple = host_target_triple
                  /\ g.distributables[a].bundle =
                        IF windows THEN [style |-> "Zip"]
                        ELSE [style |-> "Tar", compression |-> "Xzip"]
            /\ host_target_triple = HOST_LINUX_GNU => ~windows
            /\ host_target_triple = HOST_WINDOWS_MSVC => windows

\* a graph with a distributable for a host that is not windows
C17_Witness ==
    /\ GraphBuilt
    /\ host_target_triple = HOST_LINUX_GNU
    /\ Len(dist.distributables) = 1
    /\ dist.distributables[1].bundle.style = "Tar"

\* the package an artifact is of
OwnerOf(exe) == CHOOSE i \in DOMAIN workspace : workspace[i].id = exe.package_id
DIST_DIR == <<"t", "/", "d", "i", "s", "t", "r", "i", "b">>
ExtensionOf(bundle) ==
    IF bundle.style = "Zip" THEN <<"z", "i", "p">>
    ELSE IF bundle.compression = "Gzip" THEN <<"t", "a", "r", ".", "g", "z">>
    ELSE IF bundle.compression = "Xzip" THEN <<"t", "a", "r", ".", "x", "z">>
    ELSE <<"t", "a", "r", ".", "z", "s", "t", "d">>

\* C18: for every distributable, full_name is {app}-v{version}-{triple},
\* the staging directory is dist_dir/full_name, the archive's file name is
\* full_name, a "." and the extension, the final path is
\* dist_dir/file_name, and the extension is that of the bundle style (zip,
\* tar.gz, tar.xz, tar.zstd).
C18_NamesAndPaths ==
    GraphBuilt =>
        LET g == dist
        IN  /\ g.dist_dir = DIST_DIR
            /\ \A a \in 1..Len(g.distributables) :
                LET distrib == g.distributables[a]
                    exe == g.artifacts[a]
                    full_name == exe.exe_name \o <<"-", "v">> \o workspace[OwnerOf(exe)].version
                                    \o <<"-">> \o host_target_triple
                    file_name_ == full_name \o <<".">> \o ExtensionOf(distrib.bundle)
                IN  /\ distrib.full_name = full_name
                    /\ distrib.dir_path = DIST_DIR \o <<"/">> \o full_name
                    /\ distrib.file_name = file_name_
                    /\ distrib.file_path = DIST_DIR \o <<"/">> \o file_name_
            /\ \A bundle \in {Zip} \cup {Tar(c) : c \in CompressionImpl} :
                file_ext(bundle) = ExtensionOf(bundle)

\* a graph with the distributables of a 1.0.0 and of a 2.0.0 binary
C18_Witness ==
    /\ GraphBuilt
    /\ Len(dist.distributables) = 2
    /\ host_target_triple = HOST_WINDOWS_MSVC
    /\ Len(workspace) = 2
    /\ workspace[2].version = V200

\* the release key of distributable number d (that of artifact number d)
KeyOf(g, d) == <<g.artifacts[d].exe_name, workspace[OwnerOf(g.artifacts[d])].version>>

\* C19: the distributables are grouped into releases by (app_name = name of
\* the executable, version = version of its package): one release for each
\* key, two distributables in the same release iff their keys are equal,
\* and the distributables of a release in the order of their artifacts.
C19_ReleasesByKey ==
    GraphBuilt =>
        LET g == dist
            ds == 1..Len(g.distributables)
            holds(r, d) == \E j \in DOMAIN g.releases[r].distributables :
                              g.releases[r].distributables[j] = d - 1
        IN  /\ \A r1, r2 \in DOMAIN g.releases :
                  (g.releases[r1].app_name = g.releases[r2].app_name
                   /\ g.releases[r1].version = g.releases[r2].version) => r1 = r2
            /\ {<<g.releases[r].app_name, g.releases[r].version>> : r \in DOMAIN g.releases}
                  = {KeyOf(g, d) : d \in ds}
            /\ \A r \in DOMAIN g.releases : \A d \in ds :
                  holds(r, d) <=> KeyOf(g, d) = <<g.releases[r].app_name, g.releases[r].version>>
            /\ \A d1, d2 \in ds :
                  (\E r \in DOMAIN g.releases : holds(r, d1) /\ holds(r, d2))
                      <=> KeyOf(g, d1) = KeyOf(g, d2)
            /\ \A r \in DOMAIN g.releases :
                  \A j1, j2 \in DOMAIN g.releases[r].distributables :
                      j1 < j2 => g.releases[r].distributables[j1] < g.releases[r].distributables[j2]

\* two binaries of one name and one version: one release with both
\* distributables
C19_Witness ==
    /\ GraphBuilt
    /\ Len(dist.releases) = 1
    /\ dist.releases[1].distributables = <<0, 1>>

(***************************************************************************)
(* Properties of the target triple parser (checked under SpecParse)        *)
(***************************************************************************)

\* the values of a stringish enum
IsVariantOf(strings, v) ==
    \/ v \in {Variant(row[2]) : row \in strings}
    \/ /\ DOMAIN v = {"variant", "val"}
       /\ v.variant = "Other"
       /\ \E i \in 1..(Len(triple) + 1) : v.val = SubSeq(triple, i, i + Len(v.val) - 1)

\* C20: the conversion of a target triple returns for every string (the
\* empty one, one without '-', one with many '-'): the parsed view has an
\* arch, a vendor, an os and an abi, and its `original` is the string as it
\* was given; a string that does not split into 2, 3 or 4 components (one
\* without '-') has all four fields Unknown.
C20_ParsingTotalAndPreservesOriginal ==
    /\ parse_pc = "from" => DOMAIN from(triple) = DOMAIN NotParsed
    /\ parse_pc = "parsed" =>
        /\ parsed.original = triple
        /\ DOMAIN parsed = {"arch", "vendor", "os", "abi", "original"}
        /\ IsVariantOf(ArchStrings, parsed.arch)
        /\ IsVariantOf(VendorStrings, parsed.vendor)
        /\ IsVariantOf(OsStrings, parsed.os)
        /\ IsVariantOf(AbiStrings, parsed.abi)
        /\ Dashes(triple) = 0 =>
              /\ parsed.arch = Unknown /\ parsed.vendor = Unknown
              /\ parsed.os = Unknown /\ parsed.abi = Unknown

\* a known architecture alone ("wasm32") has been converted
C20_Witness ==
    /\ parse_pc = "parsed"
    /\ Dashes(triple) = 0
    /\ from_str(ArchStrings, triple) = Variant("Wasm32")
    /\ parsed.original = triple

\* the conversion has returned
Parsed == parse_pc \in {"parsed", "asked"}

\* the place of the k-th '-' of s
NthDash(s, k) ==
    CHOOSE i \in DOMAIN s : s[i] = "-" /\ Cardinality({j \in 1..(i - 1) : s[j] = "-"}) = k - 1
\* the text up to the k-th '-', from the one before it
Before(s, k) == SubSeq(s, IF k = 1 THEN 1 ELSE NthDash(s, k - 1) + 1, NthDash(s, k) - 1)
\* the text after the k-th '-'
After(s, k) == SubSeq(s, NthDash(s, k) + 1, Len(s))

\* C21: a triple of three components a-b-c is parsed as arch a, os b, abi c
\* with vendor Unknown when b is exactly "linux", and as arch a, vendor b,
\* os c with abi Unknown otherwise.
C21_ThreeComponents ==
    (Parsed /\ Dashes(triple) = 2) =>
        LET a == Before(triple, 1)
            b == Before(triple, 2)
            c == After(triple, 2)
        IN  IF b = <<"l", "i", "n", "u", "x">>
            THEN /\ parsed.arch = from_str(ArchStrings, a)
                 /\ parsed.vendor = Unknown
                 /\ parsed.os = Variant("Linux")
                 /\ parsed.abi = from_str(AbiStrings, c)
            ELSE /\ parsed.arch = from_str(ArchStrings, a)
                 /\ parsed.vendor = from_str(VendorStrings, b)
                 /\ parsed.os = from_str(OsStrings, c)
                 /\ parsed.abi = Unknown

\* i686-linux-android has been converted: os Linux, abi Android, no vendor
C21_Witness ==
    /\ Parsed
    /\ Dashes(triple) = 2
    /\ Before(triple, 2) = LINUX
    /\ parsed.os = Variant("Linux")
    /\ parsed.abi = Variant("Android")
    /\ parsed.arch = Variant("I686")

\* C22: a triple is split on '-' into at most four components; with four
\* the fields are arch, vendor, os, abi in this order, and all the text
\* after the third '-', further '-' included, is the one abi component.
C22_FourComponents ==
    (Parsed /\ Dashes(triple) >= 3) =>
        /\ parsed.arch = from_str(ArchStrings, Before(triple, 1))
        /\ parsed.vendor = from_str(VendorStrings, Before(triple, 2))
        /\ parsed.os = from_str(OsStrings, Before(triple, 3))
        /\ parsed.abi = from_str(AbiStrings, After(triple, 3))
        /\ Dashes(triple) > 3 =>
              /\ parsed.abi.variant = "Other"
              /\ Dashes(parsed.abi.val) = Dashes(triple) - 3

\* a triple with five '-' has been converted, two of them are in its abi
C22_Witness ==
    /\ Parsed
    /\ Dashes(triple) = 5
    /\ parsed.arch = Variant("X86_64")
    /\ parsed.os = Variant("Linux")
    /\ parsed.abi = Other(<<"g", "n", "u", "-", "a", "-", "b">>)

WASM32_WASI == <<"w", "a", "s", "m", "3", "2", "-", "w", "a", "s", "i">>

\* C23: a triple of two components is parsed as arch and os, with vendor
\* Unknown and abi Unknown; wasm32-wasi gives arch Wasm32 and os Wasi, and
\* is_wasm holds of it while is_64bit does not.
C23_TwoComponents ==
    /\ (Parsed /\ Dashes(triple) = 1) =>
          /\ parsed.arch = from_str(ArchStrings, Before(triple, 1))
          /\ parsed.vendor = Unknown
          /\ parsed.os = from_str(OsStrings, After(triple, 1))
          /\ parsed.abi = Unknown
    /\ (Parsed /\ triple = WASM32_WASI) =>
          /\ parsed.arch = Variant("Wasm32")
          /\ parsed.os = Variant("Wasi")
    /\ (parse_pc = "asked" /\ triple = WASM32_WASI) =>
          /\ answers.val.is_wasm
          /\ ~answers.val.is_64bit

\* wasm32-wasi has been converted and its predicates asked
C23_Witness ==
    /\ parse_pc = "asked"
    /\ triple = WASM32_WASI
    /\ parsed.os = Variant("Wasi")
    /\ answers.val.is_wasm

\* The components of a triple and the field each is read as: arch-os,
\* arch-linux-abi, arch-vendor-os, arch-vendor-os-abi (the abi being all
\* that follows the third '-').
FieldsOf(s) ==
    CASE Dashes(s) = 0 -> {}
      [] Dashes(s) = 1 ->
            {[field |-> "arch", strings |-> ArchStrings, component |-> Before(s, 1)],
             [field |-> "os", strings |-> OsStrings, component |-> After(s, 1)]}
      [] Dashes(s) = 2 /\ Before(s, 2) = LINUX ->
            {[field |-> "arch", strings |-> ArchStrings, component |-> Before(s, 1)],
             [field |-> "os", strings |-> OsStrings, component |-> Before(s, 2)],
             [field |-> "abi", strings |-> AbiStrings, component |-> After(s, 2)]}
      [] Dashes(s) = 2 /\ Before(s, 2) # LINUX ->
            {[field |-> "arch", strings |-> ArchStrings, component |-> Before(s, 1)],
             [field |-> "vendor", strings |-> VendorStrings, component |-> Before(s, 2)],
             [field |-> "os", strings |-> OsStrings, component |-> After(s, 2)]}
      [] OTHER ->
            {[field |-> "arch", strings |-> ArchStrings, component |-> Before(s, 1)],
             [field |-> "vendor", strings |-> VendorStrings, component |-> Before(s, 2)],
             [field |-> "os", strings |-> OsStrings, component |-> Before(s, 3)],
             [field |-> "abi", strings |-> AbiStrings, component |-> After(s, 3)]}

\* C24: every component is classified by the literal table of its field:
\* a component equal to a literal of the table gives the variant of that
\* literal, "unknown" gives Unknown, any other string s gives Other(s); and
\* every triple of the parser's test is parsed to the arch, vendor, os and
\* abi the test asserts of it.
C24_ClosedLiteralTables ==
    Parsed =>
        /\ \A f \in FieldsOf(triple) :
            /\ \A row \in f.strings : row[1] = f.component => parsed[f.field] = Variant(row[2])
            /\ f.component = <<"u", "n", "k", "n", "o", "w", "n">> => parsed[f.field] = Unknown
            /\ (\A row \in f.strings : row[1] # f.component) => parsed[f.field] = Other(f.component)
        /\ \A a \in assert_target :
            triple = a.triple =>
                parsed = TargetTripleParsed(Variant(a.arch), Variant(a.vendor), Variant(a.os),
                                            Variant(a.abi), a.triple)

\* x86_64-unknown-illumos of the test has been converted
C24_Witness ==
    /\ Parsed
    /\ \E a \in assert_target : triple = a.triple /\ a.os = "Illumos"
    /\ parsed.os = Variant("Illumos")
    /\ parsed.vendor = Unknown

AARCH64_LINUX_ANDROID ==
    <<"a", "a", "r", "c", "h", "6", "4", "-", "l", "i", "n", "u", "x", "-", "a", "n", "d", "r", "o", "i", "d">>

\* C25: aarch64-linux-android is parsed to arch Aarch64, vendor Unknown, os
\* Linux, abi Android, and is_linux and is_android both hold of it.
C25_AndroidIsLinuxAndAndroid ==
    /\ (Parsed /\ triple = AARCH64_LINUX_ANDROID) =>
          parsed = TargetTripleParsed(Variant("Aarch64"), Unknown, Variant("Linux"),
                                      Variant("Android"), AARCH64_LINUX_ANDROID)
    /\ (parse_pc = "asked" /\ triple = AARCH64_LINUX_ANDROID) =>
          /\ answers.val.is_linux
          /\ answers.val.is_android

\* C26: x86_64-pc-windows-msvc is parsed to arch X86_64, vendor Pc, os
\* Windows, abi Msvc, and is_64bit, is_windows, is_msvc and is_little_endian
\* hold of it; what the predicates answer is decided by the four parsed
\* fields, whatever the original string is.
C26_WindowsMsvcAndPredicates ==
    /\ (Parsed /\ triple = HOST_WINDOWS_MSVC) =>
          parsed = TargetTripleParsed(Variant("X86_64"), Variant("Pc"), Variant("Windows"),
                                      Variant("Msvc"), HOST_WINDOWS_MSVC)
    /\ (parse_pc = "asked" /\ triple = HOST_WINDOWS_MSVC) =>
          /\ answers.val.is_64bit
          /\ answers.val.is_windows
          /\ answers.val.is_msvc
          /\ answers.val.is_little_endian
    /\ parse_pc = "asked" =>
          \A original \in {<<>>, WINDOWS, LINUX, HOST_WINDOWS_MSVC, HOST_LINUX_GNU} :
              answers.val = predicates([parsed EXCEPT !.original = original])

\* the predicates of x86_64-pc-windows-msvc have been asked
C26_Witness ==
    /\ parse_pc = "asked"
    /\ triple = HOST_WINDOWS_MSVC
    /\ answers.val.is_windows
    /\ ~answers.val.is_linux

\* C27: of every triple of KNOWN_TARGET_TRIPLES no field is Other, the arch
\* is not Unknown, and a field is Unknown only where the triple has no such
\* component or spells it "unknown".
C27_KnownTriplesAreRecognized ==
    (Parsed /\ triple \in KNOWN_TARGET_TRIPLES) =>
        /\ \A field \in {"arch", "vendor", "os", "abi"} : parsed[field].variant # "Other"
        /\ parsed.arch # Unknown
        /\ \A field \in {"vendor", "os", "abi"} :
              parsed[field] = Unknown =>
                  \/ \A f \in FieldsOf(triple) : f.field # field
                  \/ \E f \in FieldsOf(triple) :
                        f.field = field /\ f.component = <<"u", "n", "k", "n", "o", "w", "n">>

\* sparcv9-sun-solaris of the recognized targets has been converted
C27_Witness ==
    /\ Parsed
    /\ triple \in KNOWN_TARGET_TRIPLES
    /\ parsed.vendor = Variant("Sun")
    /\ parsed.abi = Unknown

(***************************************************************************)
(* Properties of the compiler invocation (checked under SpecCommand)       *)
(***************************************************************************)

\* the places of an argument on the command line
PlacesOf(arg) == {i \in DOMAIN command : command[i] = arg}

\* C28: the compiler is invoked with `build`, `--profile <profile>`,
\* `--message-format=json`, then the feature flags (`--no-default-features`
\* iff no_default_features, `--all-features` iff the features are All,
\* `--features` and the list iff the explicit list is not empty, no feature
\* flag for an empty list), then exactly one package scope (`--workspace`
\* or `--package <id>`) last.
C28_CommandLine ==
    command_pc = "spawn" =>
        LET n == Len(command)
            features == build_target.features.features
            scope == IF build_target.package.kind = "Workspace" THEN 1 ELSE 2
            feature_flags == SubSeq(command, 5, n - scope)
        IN  /\ SubSeq(command, 1, 4)
                  = <<<<"b", "u", "i", "l", "d">>, ARG_PROFILE, build_target.profile,
                      ARG_MESSAGE_FORMAT_JSON>>
            /\ (PlacesOf(ARG_NO_DEFAULT_FEATURES) # {}) <=> build_target.features.no_default_features
            /\ PlacesOf(ARG_NO_DEFAULT_FEATURES) \subseteq {5}
            /\ (PlacesOf(ARG_ALL_FEATURES) # {}) <=> features.kind = "All"
            /\ (PlacesOf(ARG_FEATURES) # {}) <=> (features.kind = "List" /\ features.list # <<>>)
            /\ \A i \in PlacesOf(ARG_FEATURES) :
                  SubSeq(command, i + 1, i + Len(features.list)) = features.list
            /\ feature_flags
                  = (IF build_target.features.no_default_features
                     THEN <<ARG_NO_DEFAULT_FEATURES>> ELSE <<>>)
                    \o (CASE features.kind = "All" -> <<ARG_ALL_FEATURES>>
                          [] features.kind = "List" /\ features.list = <<>> -> <<>>
                          [] OTHER -> <<ARG_FEATURES>> \o features.list)
            /\ Cardinality(PlacesOf(ARG_WORKSPACE) \cup PlacesOf(ARG_PACKAGE)) = 1
            /\ IF build_target.package.kind = "Workspace"
               THEN command[n] = ARG_WORKSPACE
               ELSE command[n - 1] = ARG_PACKAGE /\ command[n] = build_target.package.package

\* a command with --no-default-features, two features and one package
C28_Witness ==
    /\ command_pc = "spawn"
    /\ build_target.features.no_default_features
    /\ build_target.features.features = List(<<<<"f">>, <<"g">>>>)
    /\ build_target.package.kind = "Package"
    /\ Len(command) = 10

(***************************************************************************)
(* The life of an expected binary (checked under SpecBins)                 *)
(***************************************************************************)

\* the binary of the graph an entry stands for, and where it is copied to
BinaryOf(key) == At(binaries, EntryOf(key).idx)
DestinationsOf(key) ==
    Range(BinaryOf(key).copy_exe_to) \cup Range(BinaryOf(key).copy_symbols_to)
\* the manifest has the asset record of the entry's binary
HasAsset(key) == BinaryOf(key).id \in DOMAIN manifest_assets
\* some file of the entry has been copied
Copied(key) == DestinationsOf(key) \cap DOMAIN dest_files # {}
\* the binary is at every destination of copy_exe_to
BinaryCopied(key) ==
    \A dest \in Range(BinaryOf(key).copy_exe_to) :
        /\ dest \in DOMAIN dest_files
        /\ dest_files[dest] = build_output[EntryOf(key).src_path.val]

\* C29: an expected binary is Seeded, then Located, Validated, Processed.
\* It is located only by a found_bin whose package id and path stem are
\* its key; nothing is validated or processed before process_bins, and
\* then only entries whose path exists; a binary is copied only with its
\* linkage (asset record) in the manifest already; an entry that is not
\* located, or located at a path that does not exist, when process_bins
\* runs is missing: the run fails and the entry has no asset record and no
\* copy.
C29_LifeOfAnExpectedBinary ==
    /\ [](/\ (bins_pc = "build" /\ n_found = 0) =>
                \A key \in ExpectedKeys(expectations) :
                    ~EntryOf(key).src_path.some /\ EntryOf(key).sym_paths = <<>>
          /\ bins_pc # "done" => manifest_assets = EmptyMap /\ dest_files = EmptyMap
          /\ bins_pc = "done" =>
                \A key \in ExpectedKeys(expectations) :
                    /\ key \in MissingKeys =>
                          ~HasAsset(key) /\ ~Copied(key) /\ ~bins_result.val.ok
                    /\ HasAsset(key) => key \notin MissingKeys
                    /\ Copied(key) => HasAsset(key)
                    /\ bins_result.val.ok => HasAsset(key) /\ BinaryCopied(key))
    /\ [][\A key \in ExpectedKeys(expectations) :
            EntryOf(key).src_path # expectations'.packages[key[1]][key[2]].src_path =>
                \E src_path \in FoundPaths, maybe_symbols \in SymbolLists, written \in BOOLEAN :
                    /\ FoundBin(key[1], src_path, maybe_symbols, written)
                    /\ file_stem(src_path) = Some(key[2])
                    /\ expectations'.packages[key[1]][key[2]].src_path = Some(src_path)]_vars

\* process_bins has run: one binary is processed, another one is missing
C29_Witness ==
    /\ bins_pc = "done"
    /\ \E key \in ExpectedKeys(expectations) :
          key \notin MissingKeys /\ HasAsset(key) /\ BinaryCopied(key)
    /\ \E key \in MissingKeys : EntryOf(key).src_path.some /\ ~HasAsset(key)

\* C30: process_bins returns success only if every entry of the map has
\* src_path set to a path that exists: at the end of the build every
\* expected binary is located at an existing path or the build has failed.
C30_SuccessOnlyIfAllLocated ==
    bins_pc = "done" =>
        \/ ~bins_result.val.ok
        \/ \A pkg_id \in DOMAIN expectations.packages :
              \A bin_name \in DOMAIN expectations.packages[pkg_id] :
                  LET entry == expectations.packages[pkg_id][bin_name]
                  IN  entry.src_path.some /\ entry.src_path.val \in DOMAIN build_output

\* process_bins has succeeded with two expected binaries
C30_Witness ==
    /\ bins_pc = "done"
    /\ bins_result.val.ok
    /\ Cardinality(ExpectedKeys(expectations)) = 2

(***************************************************************************)
(* The recognized targets and the predicates (checked under SpecParse)     *)
(***************************************************************************)

\* the triple is one of the TARGET_* constants of the module
IsTargetConstant == \E c \in define_target_triples : c.triple = triple

\* C33: the lists of known targets are complete: every Linux glibc target
\* constant is in KNOWN_LINUX_GNU_TARGETS, every Linux musl target constant
\* is in KNOWN_LINUX_MUSL_TARGETS, and every TARGET_* constant of
\* define_target_triples! is in KNOWN_TARGET_TRIPLES.
C33_KnownListsAreComplete ==
    (Parsed /\ IsTargetConstant) =>
        /\ \A c \in define_target_triples :
              c.triple = triple =>
                  /\ c.list = "KNOWN_LINUX_GNU_TARGETS" => triple \in KNOWN_LINUX_GNU_TARGETS
                  /\ c.list = "KNOWN_LINUX_MUSL_TARGETS" => triple \in KNOWN_LINUX_MUSL_TARGETS
        /\ triple \in KNOWN_TARGET_TRIPLES

\* the triples a host may have: those of the recognized targets and of the
\* parser's test
IsRustcTriple ==
    \/ IsTargetConstant
    \/ triple \in KNOWN_TARGET_TRIPLES
    \/ \E a \in assert_target : a.triple = triple

\* C39: the bundle style gather_work chooses for a host triple is Zip
\* exactly when is_windows holds of the parsed triple.
C39_BundleStyleAgreesWithIsWindows ==
    (parse_pc = "asked" /\ IsRustcTriple) =>
        (bundle_for(triple) = Zip <=> answers.val.is_windows)

\* aarch64-pc-windows-gnu has been asked: Zip, and is_windows
C39_Witness ==
    /\ parse_pc = "asked"
    /\ triple \in KNOWN_WINDOWS_TARGETS
    /\ parsed.abi = Variant("Gnu")
    /\ parsed.arch = Variant("Aarch64")
    /\ bundle_for(triple) = Zip
    /\ answers.val.is_windows

\* the answers about an architecture, whatever the other fields are
ArchAnswers(arch) == predicates(TargetTripleParsed(arch, Unknown, Unknown, Unknown, <<>>))
Unrecognized(arch) == arch = Unknown \/ arch.variant = "Other"
ExactlyOne(p, q) == (p \/ q) /\ ~(p /\ q)

\* C40: of every parsed triple is_32bit and is_64bit are never both true,
\* nor are is_big_endian and is_little_endian; all four are false exactly
\* when the arch is Unknown or Other, and for every recognized arch exactly
\* one of each pair is true.
C40_WidthAndEndianness ==
    /\ parse_pc = "asked" =>
          LET a == answers.val
          IN  /\ ~(a.is_32bit /\ a.is_64bit)
              /\ ~(a.is_big_endian /\ a.is_little_endian)
              /\ Unrecognized(parsed.arch)
                    <=> (~a.is_32bit /\ ~a.is_64bit /\ ~a.is_big_endian /\ ~a.is_little_endian)
              /\ ~Unrecognized(parsed.arch) =>
                    /\ ExactlyOne(a.is_32bit, a.is_64bit)
                    /\ ExactlyOne(a.is_big_endian, a.is_little_endian)
    /\ parse_pc = "asked" =>
          \A row \in ArchStrings :
              LET a == ArchAnswers(Variant(row[2]))
              IN  IF row[2] = "Unknown"
                  THEN ~a.is_32bit /\ ~a.is_64bit /\ ~a.is_big_endian /\ ~a.is_little_endian
                  ELSE /\ ExactlyOne(a.is_32bit, a.is_64bit)
                       /\ ExactlyOne(a.is_big_endian, a.is_little_endian)

\* a big-endian 64-bit triple and one with an arch the table does not have
\* have been asked
C40_Witness ==
    /\ parse_pc = "asked"
    /\ \/ /\ parsed.arch = Variant("S390x")
          /\ answers.val.is_big_endian /\ answers.val.is_64bit
    /\ \A row \in ArchStrings : row[2] # "Unknown" => bit_width(Variant(row[2])).some

(***************************************************************************)
(* The reconciler from new to process_bins (checked under SpecBins)        *)
(***************************************************************************)

\* the copies of an entry's files that fail: at a destination where a copy
\* fails, or of a symbol file that is not in the build output
CopyFails(key, copy_errs) ==
    \/ Range(BinaryOf(key).copy_exe_to) \cap copy_errs # {}
    \/ /\ EntryOf(key).sym_paths # <<>>
       /\ BinaryOf(key).copy_symbols_to # <<>>
       /\ \/ Range(BinaryOf(key).copy_symbols_to) \cap copy_errs # {}
          \/ \E i \in DOMAIN EntryOf(key).sym_paths :
                EntryOf(key).sym_paths[i] \notin DOMAIN build_output
LinkageFails(key, linkage_errs) ==
    ~expectations.fake /\ EntryOf(key).src_path.val \in linkage_errs

\* C36: process_bins is not atomic when a binary is missing: when it
\* returns MissingBinaries, the manifest holds the asset record of every
\* binary that was located and exists, and their files are copied; and when
\* the linkage analysis or a copy of a located binary fails, that error is
\* returned, not the missing-binary error.
C36_MissingBinariesAfterTheOthers ==
    /\ [](Processed /\ IsMissingBinaries(bins_result.val) =>
            \A key \in ExpectedKeys(expectations) \ MissingKeys :
                HasAsset(key) /\ BinaryCopied(key))
    /\ [][(/\ bins_pc = "build" /\ bins_pc' = "done"
           /\ bins_result'.val.ok \/ IsMissingBinaries(bins_result'.val)) =>
            \A linkage_errs \in SUBSET LocatedPaths(expectations),
               copy_errs \in SUBSET CopyDestinations(binaries) :
                (\E key \in ExpectedKeys(expectations) \ MissingKeys :
                    LinkageFails(key, linkage_errs) \/ CopyFails(key, copy_errs)) =>
                        ~ProcessBins(linkage_errs, copy_errs)]_vars

\* process_bins has returned MissingBinaries for an entry it visited before
\* one that it linked and copied
C36_Witness ==
    /\ Processed
    /\ IsMissingBinaries(bins_result.val)
    /\ \E missing \in MissingKeys, key \in ExpectedKeys(expectations) \ MissingKeys :
          /\ KeyLess(missing, key)
          /\ HasAsset(key) /\ BinaryCopied(key)

\* the key new files a binary under
ExpectedKeyOf(binary) == <<package_id_string(binary.pkg_id), binary.name>>
UniqueKeys(dist_) ==
    \A i \in DOMAIN dist_, j \in DOMAIN dist_ :
        i # j => ExpectedKeyOf(dist_[i]) # ExpectedKeyOf(dist_[j])
HoldersOf(self, idx) ==
    {key \in ExpectedKeys(self) : self.packages[key[1]][key[2]].idx = idx}

\* C37: after new(dist, expected_binaries) every entry of the map is that
\* of an expected index, under the key of its binary, with src_path None
\* and no sym_paths; and every expected index is held by exactly one entry
\* when no two expected binaries share the key (package id or empty
\* string, binary name), and only then.
C37_NewSeedsOneEntryPerIndex ==
    [][(bins_pc = "new" /\ bins_pc' = "build") =>
        /\ \A key \in ExpectedKeys(expectations') :
              LET entry == expectations'.packages[key[1]][key[2]]
              IN  /\ entry.idx \in 0..(Len(binaries) - 1)
                  /\ key = ExpectedKeyOf(At(binaries, entry.idx))
                  /\ entry.src_path = None
                  /\ entry.sym_paths = <<>>
        /\ UniqueKeys(binaries) <=>
              \A idx \in 0..(Len(binaries) - 1) :
                  Cardinality(HoldersOf(expectations', idx)) = 1]_vars

\* new has run on the graph with one name in two packages
C37_Witness ==
    /\ bins_pc = "build"
    /\ n_found = 0
    /\ UniqueKeys(binaries)
    /\ HoldersOf(expectations, 0) = {<<PKG_P, BIN_A>>}
    /\ HoldersOf(expectations, 1) = {<<PKG_Q, BIN_A>>}

\* C38: across the calls of found_bin the state of the reconciler is
\* monotone: the keys and the idx of each entry never change, a src_path
\* that is Some never becomes None, and sym_paths only grows; a report of a
\* binary already located appends its symbols again.
C38_FoundBinIsMonotone ==
    [][bins_pc = "build" =>
        /\ ExpectedKeys(expectations') = ExpectedKeys(expectations)
        /\ \A key \in ExpectedKeys(expectations) :
              LET old == EntryOf(key)
                  now == expectations'.packages[key[1]][key[2]]
              IN  /\ now.idx = old.idx
                  /\ old.src_path.some => now.src_path.some
                  /\ IsPrefix(old.sym_paths, now.sym_paths)
        /\ \A pkg_id \in FoundPackages, src_path \in FoundPaths,
              maybe_symbols \in SymbolLists, written \in BOOLEAN :
                (/\ FoundBin(pkg_id, src_path, maybe_symbols, written)
                 /\ Matches(expectations, pkg_id, src_path)
                 /\ expectations.packages[pkg_id][file_stem(src_path).val].src_path.some) =>
                    Len(expectations'.packages[pkg_id][file_stem(src_path).val].sym_paths)
                        = Len(expectations.packages[pkg_id][file_stem(src_path).val].sym_paths)
                            + Len(PdbsOf(maybe_symbols))]_vars

\* a binary reported twice with the same symbols has them twice
C38_Witness ==
    /\ bins_pc = "build"
    /\ n_found = 2
    /\ \E key \in ExpectedKeys(expectations) :
          /\ EntryOf(key).src_path.some
          /\ Len(EntryOf(key).sym_paths) = 2
          /\ EntryOf(key).sym_paths[1] = EntryOf(key).sym_paths[2]

(***************************************************************************)
(* A run after a run that failed (checked under Spec)                      *)
(***************************************************************************)

\* the file an earlier run left is in the directory, or in the archive
HasStale(files) == STALE \in DOMAIN files
InitDone == pc \notin {"gather_work", "init_dirs"}

\* C31: before any build starts every distributable's staging directory is
\* recreated, empty, and no archive is at its final path, whatever an
\* earlier run left there; the staging directories and the archives of
\* the run never hold a file of the earlier run, so that its result does
\* not depend on what was left.
C31_FreshStagingBeforeAnyBuild ==
    LET g == dist
    IN  /\ (pc = "build" /\ target_i = 0) =>
              /\ \A d \in Range(g.distributables) :
                    /\ d.dir_path \in DOMAIN staging
                    /\ staging[d.dir_path] = EmptyMap
                    /\ d.file_path \notin DOMAIN archives
              /\ DOMAIN staging = {d.dir_path : d \in Range(g.distributables)}
              /\ archives = EmptyMap
        /\ pc \in {"gather_work", "init_dirs"} => task = NoTask /\ target_files = EmptyMap
        /\ InitDone =>
              /\ \A dir \in DOMAIN staging : ~HasStale(staging[dir])
              /\ \A path \in DOMAIN archives : ~HasStale(archives[path].files)

\* the loop of init_distributable_dir is under way on what an earlier run
\* left: one staging directory is empty and its archive gone, another one
\* still has the earlier run's file and archive
C31_Witness ==
    /\ pc = "init_dirs"
    /\ \E d \in Range(dist.distributables) :
          /\ d.dir_path \in DOMAIN staging
          /\ staging[d.dir_path] = EmptyMap
          /\ d.file_path \notin DOMAIN archives
    /\ \E d \in Range(dist.distributables) :
          /\ d.dir_path \in DOMAIN staging
          /\ HasStale(staging[d.dir_path])
          /\ d.file_path \in DOMAIN archives

\* C35: when every build has succeeded, the assembly of the report never
\* looks up a missing key: every index in required_artifacts of every
\* distributable of every release has an entry in built_artifacts, every
\* artifact index being expected by a build target and every successful
\* build returning all the indices it expects.
C35_ReportFindsEveryArtifact ==
    LET g == dist
    IN  /\ pc \in {"bundle", "report", "done"} =>
              /\ \A r \in DOMAIN g.releases :
                    \A d \in Range(g.releases[r].distributables) :
                        \A a \in At(g.distributables, d).required_artifacts :
                            a \in DOMAIN built_artifacts
              /\ \A a \in 0..(Len(g.artifacts) - 1) :
                    \E t \in DOMAIN g.targets : a \in Range(g.targets[t].expected_artifacts)
        /\ (pc = "populate" \/ (pc = "build" /\ target_i > 0)) =>
              DOMAIN new_built_artifacts
                  = Range(At(g.targets, IF pc = "populate" THEN target_i ELSE target_i - 1)
                              .expected_artifacts)
        /\ pc = "panicked" => task = Running

\* the report of a run with two artifacts is assembled
C35_Witness ==
    /\ pc = "done"
    /\ report.some
    /\ Cardinality(DOMAIN built_artifacts) = 2
    /\ \E r \in DOMAIN report.val :
          \E j \in DOMAIN report.val[r].distributables :
              report.val[r].distributables[j].artifacts # {}

(***************************************************************************)
(* The tar archive (checked under SpecTar)                                 *)
(***************************************************************************)

\* the stream the bundle style chooses
chosen_stream(compression) ==
    CASE compression = "Gzip" -> "gzip"
      [] compression = "Xzip" -> "xz"
      [] compression = "Zstd" -> "zstd"

LastResult == init_results[Len(init_results)]
\* the manifest has the block do_init is about to insert: the [profile.dist]
\* table, or the metadata.dist block of the root package or else of the
\* workspace
HasProfileDist(file) == file.parsable /\ <<"profile", "dist">> \in file.doc
HasMetadataDist(file) ==
    /\ file.parsable
    /\ <<metadata_pre_key(<<"package">> \in file.doc), "metadata", "dist">> \in file.doc

====
